---- MODULE Spec2Model ----
(***************************************************************************)
(* A model of rhino's request-dispatch pipeline (src/venv/Lib/site-packages *)
(* /rhino): the URL template engine (mapper.py template2regex and           *)
(* template2path), routes and mappers, resource handler resolution          *)
(* (resource.py), the conditional response engine (response.py) and the     *)
(* request life cycle of Mapper.wsgi.                                       *)
(*                                                                          *)
(* Text is modelled character by character: a Python string is a sequence   *)
(* of one-character strings, "/a" is <<"/", "a">>.  An optional value       *)
(* (Python None or a value) is a sequence of length 0 or 1.                 *)
(***************************************************************************)
EXTENDS Integers, Sequences, FiniteSets, TLC

None == << >>
Some(x) == <<x>>

(***************************************************************************)
(* Character classes of the default ranges (mapper.py DEFAULT_RANGES) and   *)
(* of urllib.quote, over the characters the model uses.                     *)
(***************************************************************************)
Letters == {"a", "b", "c", "d", "e", "g", "h", "i", "l", "p", "r", "s", "t", "u", "x", "y",
            "A", "B", "C", "D", "E", "F", "T"}
DigitChars == {"0", "1", "2", "3", "4", "5", "6", "7", "8", "9"}
Specials == {"[", "]", "{", "}", "|"}

InClass(cls, ch) ==
    CASE cls = "word"       -> ch \in Letters \cup DigitChars \cup {"_"}
      [] cls = "alpha"      -> ch \in Letters
      [] cls = "digits"     -> ch \in DigitChars
      [] cls = "alnum"      -> ch \in Letters \cup DigitChars
      [] cls = "segment"    -> ch # "/"
      [] cls = "unreserved" -> ch \in Letters \cup DigitChars \cup {"-", ".", "_", "~"}
      [] cls = "any"        -> ch # "\n"
      [] OTHER              -> FALSE

R_word == <<"w", "o", "r", "d">>
R_alpha == <<"a", "l", "p", "h", "a">>
R_digits == <<"d", "i", "g", "i", "t", "s">>
R_alnum == <<"a", "l", "n", "u", "m">>
R_segment == <<"s", "e", "g", "m", "e", "n", "t">>
R_unreserved == <<"u", "n", "r", "e", "s", "e", "r", "v", "e", "d">>
R_any == <<"a", "n", "y">>

\* mapper.py DEFAULT_RANGES: range name -> the character class of its regex
DEFAULT_RANGES ==
    (R_word :> "word") @@ (R_alpha :> "alpha") @@ (R_digits :> "digits") @@
    (R_alnum :> "alnum") @@ (R_segment :> "segment") @@
    (R_unreserved :> "unreserved") @@ (R_any :> "any")

\* the states of the two template conversions
S_PATH == 0
S_TEMPLATE == 1
S_SKIP == 2

(***************************************************************************)
(* template_splitter.split(template): re.split with a capturing group;     *)
(* runs of ordinary characters (possibly empty) alternate with the special  *)
(* characters.                                                              *)
(***************************************************************************)
RECURSIVE SplitRec(_, _, _, _)
SplitRec(t, i, cur, acc) ==
    IF i > Len(t) THEN Append(acc, cur)
    ELSE IF t[i] \in Specials
         THEN SplitRec(t, i + 1, << >>, acc \o <<cur, <<t[i]>> >>)
         ELSE SplitRec(t, i + 1, Append(cur, t[i]), acc)

template_splitter(t) == SplitRec(t, 1, << >>, << >>)

\* str.find(ch): the 0-based index of the first ch, or -1
RECURSIVE FindFrom(_, _, _)
FindFrom(s, ch, i) ==
    IF i > Len(s) THEN -1
    ELSE IF s[i] = ch THEN i - 1 ELSE FindFrom(s, ch, i + 1)

Find(s, ch) == FindFrom(s, ch, 1)

\* str.split(":"): the pieces between the colons
RECURSIVE SplitColonRec(_, _, _, _)
SplitColonRec(s, i, cur, acc) ==
    IF i > Len(s) THEN Append(acc, cur)
    ELSE IF s[i] = ":"
         THEN SplitColonRec(s, i + 1, << >>, Append(acc, cur))
         ELSE SplitColonRec(s, i + 1, Append(cur, s[i]), acc)

SplitColon(s) == SplitColonRec(s, 1, << >>, << >>)

\* the guard both conversions start with: a '|' that is not the last character
BarNotLast(template) ==
    Len(template) # 0 /\ -1 < Find(template, "|") /\ Find(template, "|") < Len(template) - 1

(***************************************************************************)
(* The regular expression template2regex builds, as the list of the pieces  *)
(* it appends to `result`.                                                  *)
(***************************************************************************)
RxBol == [k |-> "bol"]
RxEol == [k |-> "eol"]
RxOpen == [k |-> "open"]
RxClose == [k |-> "close"]
RxLit(s) == [k |-> "lit", s |-> s]
RxParam(name, cls) == [k |-> "param", name |-> name, cls |-> cls]

\* the pattern of a parameter: ranges[rangename] if rangename is set, non-empty
\* and known, else the default pattern [^/]+
ParamPattern(rangename, ranges) ==
    IF rangename # None /\ rangename[1] # << >> /\ rangename[1] \in DOMAIN ranges
    THEN ranges[rangename[1]]
    ELSE "segment"

T2RInit ==
    [state |-> S_PATH, bracketdepth |-> 0, result |-> <<RxBol>>, name |-> << >>,
     rangename |-> None, params |-> << >>, err |-> "ok"]

T2RStep(st, c, ranges) ==
    IF st.err # "ok" THEN st
    ELSE IF st.state = S_PATH THEN
        IF Len(c) > 1 THEN [st EXCEPT !.result = Append(@, RxLit(c))]
        ELSE IF c = <<"[">> THEN
            [st EXCEPT !.result = Append(@, RxOpen), !.bracketdepth = @ + 1]
        ELSE IF c = <<"]">> THEN
            IF st.bracketdepth - 1 < 0
            THEN [st EXCEPT !.err = "InvalidTemplateError"]
            ELSE [st EXCEPT !.result = Append(@, RxClose), !.bracketdepth = @ - 1]
        ELSE IF c = <<"{">> THEN [st EXCEPT !.name = << >>, !.state = S_TEMPLATE]
        ELSE IF c = <<"}">> THEN [st EXCEPT !.err = "InvalidTemplateError"]
        ELSE IF c = <<"|">> THEN st
        ELSE [st EXCEPT !.result = Append(@, RxLit(c))]
    ELSE
        IF c = <<"}">> THEN
            [st EXCEPT !.result = Append(@, RxParam(st.name, ParamPattern(st.rangename, ranges))),
                       !.params = Append(@, st.name),
                       !.state = S_PATH,
                       !.rangename = None]
        ELSE IF Find(c, ":") > -1 THEN
            IF Len(SplitColon(c)) = 2
            THEN [st EXCEPT !.name = SplitColon(c)[1], !.rangename = Some(SplitColon(c)[2])]
            ELSE [st EXCEPT !.err = "ValueError"]
        ELSE [st EXCEPT !.name = c]

RECURSIVE T2RFold(_, _, _, _)
T2RFold(st, toks, i, ranges) ==
    IF i > Len(toks) THEN st ELSE T2RFold(T2RStep(st, toks[i], ranges), toks, i + 1, ranges)

\* template2regex(template, ranges): [err, regex, params]
template2regex(template, ranges) ==
    IF BarNotLast(template)
    THEN [err |-> "InvalidTemplateError", regex |-> << >>, params |-> << >>]
    ELSE LET anchor == ~(Len(template) # 0 /\ template[Len(template)] = "|")
             st == T2RFold(T2RInit, template_splitter(template), 1, ranges)
         IN  IF st.err # "ok" THEN [err |-> st.err, regex |-> << >>, params |-> << >>]
             ELSE IF st.bracketdepth # 0 \/ st.state = S_TEMPLATE
                  THEN [err |-> "InvalidTemplateError", regex |-> << >>, params |-> << >>]
                  ELSE [err |-> "ok",
                        regex |-> IF anchor THEN Append(st.result, RxEol) ELSE st.result,
                        params |-> st.params]

(***************************************************************************)
(* re.compile(regex) and regex.match(path) for the expressions              *)
(* template2regex builds: a backtracking matcher that, like Python's,       *)
(* tries an optional group before skipping it and the longest run of a      *)
(* parameter first.  A match is [ok, end, groups]; groups maps the names    *)
(* of the groups that took part to the text they matched (groupdict()       *)
(* without its None entries).                                               *)
(***************************************************************************)
NoGroups == [n \in {} |-> << >>]
ReFail == [ok |-> FALSE, end |-> 0, groups |-> NoGroups]

IdentStart == Letters \cup {"_"}
IdentChars == Letters \cup DigitChars \cup {"_"}

\* re.compile: a group name must be an identifier and must not be used twice
IsIdentifier(n) ==
    Len(n) > 0 /\ n[1] \in IdentStart /\ \A i \in 1..Len(n) : n[i] \in IdentChars

re_compile_ok(rx) ==
    /\ \A i \in 1..Len(rx) : rx[i].k = "param" => IsIdentifier(rx[i].name)
    /\ \A i, j \in 1..Len(rx) :
          (i < j /\ rx[i].k = "param" /\ rx[j].k = "param") => rx[i].name # rx[j].name

\* the index of the ")?" that closes the "(" before position i
RECURSIVE CloseOf(_, _, _)
CloseOf(rx, i, depth) ==
    IF rx[i].k = "close"
    THEN IF depth = 1 THEN i ELSE CloseOf(rx, i + 1, depth - 1)
    ELSE IF rx[i].k = "open" THEN CloseOf(rx, i + 1, depth + 1)
    ELSE CloseOf(rx, i + 1, depth)

\* the length of the longest run of characters of class cls after position j
RECURSIVE RunLen(_, _, _)
RunLen(cls, path, j) ==
    IF j < Len(path) /\ InClass(cls, path[j + 1]) THEN 1 + RunLen(cls, path, j + 1) ELSE 0

\* '$' matches at the end and before a newline that ends the string
AtEol(path, j) == j = Len(path) \/ (j = Len(path) - 1 /\ path[Len(path)] = "\n")

RECURSIVE ReMatch(_, _, _, _, _)
RECURSIVE ReParam(_, _, _, _, _, _)
ReMatch(rx, i, path, j, g) ==
    IF i > Len(rx) THEN [ok |-> TRUE, end |-> j, groups |-> g]
    ELSE LET it == rx[i] IN
         CASE it.k = "bol"   -> IF j = 0 THEN ReMatch(rx, i + 1, path, j, g) ELSE ReFail
           [] it.k = "eol"   -> IF AtEol(path, j) THEN ReMatch(rx, i + 1, path, j, g) ELSE ReFail
           [] it.k = "lit"   ->
                IF j + Len(it.s) <= Len(path) /\ SubSeq(path, j + 1, j + Len(it.s)) = it.s
                THEN ReMatch(rx, i + 1, path, j + Len(it.s), g)
                ELSE ReFail
           [] it.k = "open"  ->
                LET r == ReMatch(rx, i + 1, path, j, g)
                IN  IF r.ok THEN r ELSE ReMatch(rx, CloseOf(rx, i + 1, 1) + 1, path, j, g)
           [] it.k = "close" -> ReMatch(rx, i + 1, path, j, g)
           [] it.k = "param" -> ReParam(rx, i, path, j, g, RunLen(it.cls, path, j))

\* a parameter that takes the shortest run that lets the rest match
ReParam_shortest_first(rx, i, path, j, g, k) ==
    LET try(n) == ReMatch(rx, i + 1, path, j + n,
                          (rx[i].name :> SubSeq(path, j + 1, j + n)) @@ g)
        lens == {n \in 1..k : try(n).ok}
    IN  IF lens = {} THEN ReFail ELSE try(CHOOSE n \in lens : \A m \in lens : n <= m)

ReParam(rx, i, path, j, g, k) ==
    IF k < 1 THEN ReFail
    ELSE LET r == ReMatch(rx, i + 1, path, j + k,
                          (rx[i].name :> SubSeq(path, j + 1, j + k)) @@ g)
         IN  IF r.ok THEN r ELSE ReParam(rx, i, path, j, g, k - 1)

\* regex.match(path)
re_match(rx, path) == ReMatch(rx, 1, path, 0, NoGroups)

(***************************************************************************)
(* unicode(value) and urllib.quote(value, safe='/:;') (Python 2).           *)
(* A parameter value is a string, an integer or a boolean.                  *)
(***************************************************************************)
StrVal(s) == [t |-> "str", s |-> s]
IntVal(n) == [t |-> "int", n |-> n]
BoolVal(b) == [t |-> "bool", b |-> b]

DigitOf(n) ==
    CASE n = 0 -> "0" [] n = 1 -> "1" [] n = 2 -> "2" [] n = 3 -> "3" [] n = 4 -> "4"
      [] n = 5 -> "5" [] n = 6 -> "6" [] n = 7 -> "7" [] n = 8 -> "8" [] n = 9 -> "9"

RECURSIVE IntToStr(_)
IntToStr(n) == IF n < 10 THEN <<DigitOf(n)>> ELSE Append(IntToStr(n \div 10), DigitOf(n % 10))

unicode(v) ==
    CASE v.t = "str"  -> v.s
      [] v.t = "int"  -> IntToStr(v.n)
      [] v.t = "bool" -> IF v.b THEN <<"T", "r", "u", "e">> ELSE <<"F", "a", "l", "s", "e">>

QuoteSafe == Letters \cup DigitChars \cup {"_", ".", "-"} \cup {"/", ":", ";"}

PercentEncode(ch) ==
    CASE ch = " "  -> <<"%", "2", "0">>
      [] ch = "%"  -> <<"%", "2", "5">>
      [] ch = "\n" -> <<"%", "0", "A">>
      [] ch = "~"  -> <<"%", "7", "E">>
      [] ch = "["  -> <<"%", "5", "B">>
      [] ch = "]"  -> <<"%", "5", "D">>
      [] ch = "{"  -> <<"%", "7", "B">>
      [] ch = "}"  -> <<"%", "7", "D">>
      [] ch = "|"  -> <<"%", "7", "C">>

RECURSIVE quote(_)
quote(s) ==
    IF s = << >> THEN << >>
    ELSE (IF s[1] \in QuoteSafe THEN <<s[1]>> ELSE PercentEncode(s[1])) \o quote(Tail(s))

\* a build that does not validate values against their range
ValueMatches_unchecked(cls, value) == TRUE

\* re.match('^' + regex + '$', value)
ValueMatches(cls, value) ==
    re_match(<<RxBol, RxParam(<<"v">>, cls), RxEol>>, value).ok

(***************************************************************************)
(* template2path.  The list kept for each bracket level is modelled by the  *)
(* concatenation of its strings (the function returns their join).          *)
(***************************************************************************)
T2PInit ==
    [state |-> S_PATH, stack |-> << << >> >>, name |-> << >>, bracketdepth |-> 0,
     skip_to_depth |-> 0, rangename |-> None, seen_name |-> <<FALSE>>, err |-> "ok"]

Front(s) == SubSeq(s, 1, Len(s) - 1)
Last(s) == s[Len(s)]
PushText(stack, c) == [stack EXCEPT ![Len(stack)] = @ \o c]

\* as T2PPathStep, but a closing bracket always keeps the block
T2PPathStep_keeps_blocks(st, c) ==
    IF Len(c) > 1 THEN [st EXCEPT !.stack = PushText(@, c)]
    ELSE IF c = <<"[">> THEN
        [st EXCEPT !.bracketdepth = @ + 1, !.stack = Append(@, << >>),
                   !.seen_name = Append(@, FALSE)]
    ELSE IF c = <<"]">> THEN
        IF st.bracketdepth - 1 < 0 THEN [st EXCEPT !.err = "InvalidTemplateError"]
        ELSE [st EXCEPT !.bracketdepth = @ - 1,
                        !.stack = PushText(Front(@), Last(st.stack)),
                        !.seen_name = [Front(@) EXCEPT ![Len(@) - 1] = TRUE]]
    ELSE IF c = <<"{">> THEN [st EXCEPT !.name = << >>, !.state = S_TEMPLATE]
    ELSE IF c = <<"}">> THEN [st EXCEPT !.err = "InvalidTemplateError"]
    ELSE IF c = <<"|">> THEN st
    ELSE [st EXCEPT !.stack = PushText(@, c)]

T2PPathStep(st, c) ==
    IF Len(c) > 1 THEN [st EXCEPT !.stack = PushText(@, c)]
    ELSE IF c = <<"[">> THEN
        [st EXCEPT !.bracketdepth = @ + 1, !.stack = Append(@, << >>),
                   !.seen_name = Append(@, FALSE)]
    ELSE IF c = <<"]">> THEN
        IF st.bracketdepth - 1 < 0 THEN [st EXCEPT !.err = "InvalidTemplateError"]
        ELSE IF Last(st.seen_name)
             THEN [st EXCEPT !.bracketdepth = @ - 1,
                             !.stack = PushText(Front(@), Last(st.stack)),
                             !.seen_name = [Front(@) EXCEPT ![Len(@) - 1] = TRUE]]
             ELSE [st EXCEPT !.bracketdepth = @ - 1, !.stack = Front(@),
                             !.seen_name = Front(@)]
    ELSE IF c = <<"{">> THEN [st EXCEPT !.name = << >>, !.state = S_TEMPLATE]
    ELSE IF c = <<"}">> THEN [st EXCEPT !.err = "InvalidTemplateError"]
    ELSE IF c = <<"|">> THEN st
    ELSE [st EXCEPT !.stack = PushText(@, c)]

T2PSkipStep(st, c) ==
    IF c = <<"[">> THEN
        [st EXCEPT !.bracketdepth = @ + 1, !.seen_name = Append(@, FALSE)]
    ELSE IF c = <<"]">> THEN
        IF st.bracketdepth = st.skip_to_depth
        THEN [st EXCEPT !.stack = Front(@), !.skip_to_depth = 0, !.state = S_PATH,
                        !.bracketdepth = @ - 1, !.seen_name = Front(@)]
        ELSE [st EXCEPT !.bracketdepth = @ - 1, !.seen_name = Front(@)]
    ELSE st

T2PTemplateStep(st, c, params, ranges) ==
    IF c = <<"}">> THEN
        IF st.name \notin DOMAIN params THEN
            IF st.bracketdepth # 0
            THEN [st EXCEPT !.skip_to_depth = st.bracketdepth, !.state = S_SKIP,
                            !.rangename = None]
            ELSE [st EXCEPT !.err = "InvalidArgumentError"]
        ELSE LET value == quote(unicode(params[st.name]))
             IN  IF ~ValueMatches(ParamPattern(st.rangename, ranges), value)
                 THEN [st EXCEPT !.err = "InvalidArgumentError"]
                 ELSE [st EXCEPT !.stack = PushText(@, value), !.state = S_PATH,
                                 !.rangename = None]
    ELSE IF Find(c, ":") > -1 /\ Len(SplitColon(c)) # 2 THEN [st EXCEPT !.err = "ValueError"]
    ELSE IF st.bracketdepth + 1 > Len(st.seen_name) THEN [st EXCEPT !.err = "IndexError"]
    ELSE IF Find(c, ":") > -1
         THEN [st EXCEPT !.name = SplitColon(c)[1], !.rangename = Some(SplitColon(c)[2]),
                         !.seen_name = [@ EXCEPT ![st.bracketdepth + 1] = TRUE]]
         ELSE [st EXCEPT !.name = c,
                         !.seen_name = [@ EXCEPT ![st.bracketdepth + 1] = TRUE]]

T2PStep(st, c, params, ranges) ==
    IF st.err # "ok" THEN st
    ELSE IF st.state = S_PATH THEN T2PPathStep(st, c)
    ELSE IF st.state = S_SKIP THEN T2PSkipStep(st, c)
    ELSE T2PTemplateStep(st, c, params, ranges)

RECURSIVE T2PFold(_, _, _, _, _)
T2PFold(st, toks, i, params, ranges) ==
    IF i > Len(toks) THEN st
    ELSE T2PFold(T2PStep(st, toks[i], params, ranges), toks, i + 1, params, ranges)

\* template2path(template, params, ranges): [err, path]
template2path(template, params, ranges) ==
    IF BarNotLast(template) THEN [err |-> "InvalidTemplateError", path |-> << >>]
    ELSE LET st == T2PFold(T2PInit, template_splitter(template), 1, params, ranges)
         IN  IF st.err # "ok" THEN [err |-> st.err, path |-> << >>]
             ELSE IF st.bracketdepth # 0 \/ st.state = S_TEMPLATE
                  THEN [err |-> "InvalidTemplateError", path |-> << >>]
                  ELSE IF st.state = S_SKIP \/ Len(st.stack) > 1 \/ Len(st.seen_name) # 1
                       THEN [err |-> "MapperException", path |-> << >>]
                       ELSE [err |-> "ok", path |-> st.stack[1]]

(***************************************************************************)
(* Route.__init__ and Mapper.add.  A target is named by its identity:       *)
(* resources "A" and "B", a plain callable "F", nested mappers "M2", "M3".  *)
(***************************************************************************)
C_ctx == <<"c", "t", "x">>

RECURSIVE AfterFirst(_, _)
\* s.split(ch, 1)[1] for a string that contains ch
AfterFirst(s, ch) == IF s[1] = ch THEN Tail(s) ELSE AfterFirst(Tail(s), ch)

SeqToSet(s) == {s[i] : i \in 1..Len(s)}

\* Route.__init__(template, resource, ranges, name): [err, route]
RouteInit(template, resource, ranges, name) ==
    LET c == template2regex(template, ranges)
        bad == [err |-> "InvalidArgumentError", route |-> << >>]
    IN  IF name # None /\ (Find(name[1], ":") > -1 \/ Find(name[1], "/") > -1) THEN bad
        ELSE IF name # None /\ name[1] = << >> THEN [bad EXCEPT !.err = "IndexError"]
        ELSE IF name # None /\ name[1][1] = "." THEN bad
        ELSE IF c.err # "ok" THEN [bad EXCEPT !.err = c.err]
        ELSE IF ~re_compile_ok(c.regex) THEN [bad EXCEPT !.err = "re.error"]
        ELSE IF C_ctx \in SeqToSet(c.params) THEN bad
        ELSE IF \E i \in 1..Len(c.params) : c.params[i] # << >> /\ c.params[i][1] = "_" THEN bad
        ELSE [err |-> "ok",
              route |-> [template |-> template, resource |-> resource, name |-> name,
                         regex |-> c.regex, _params |-> None, template_params |-> c.params,
                         is_anchored |-> (Len(template) # 0 /\ template[Len(template)] # "|")]]

\* Mapper.__init__
NewMapper ==
    [config |-> NoGroups, ranges |-> DEFAULT_RANGES, routes |-> << >>,
     named_routes |-> NoGroups, lookup |-> NoGroups, wrappers |-> << >>]

\* Mapper.add(template, resource, name): [err, mapper]
MapperAdd(mp, template, resource, name) ==
    LET r == RouteInit(template, resource, mp.ranges, name)
        lk == IF resource \in DOMAIN mp.lookup THEN mp.lookup
              ELSE (resource :> r.route) @@ mp.lookup
    IN  IF r.err # "ok" THEN [err |-> r.err, mapper |-> mp]
        ELSE IF name # None /\ name[1] \in DOMAIN mp.named_routes
             THEN [err |-> "InvalidArgumentError", mapper |-> [mp EXCEPT !.lookup = lk]]
             ELSE [err |-> "ok",
                   mapper |-> [mp EXCEPT !.lookup = lk,
                                         !.named_routes = IF name = None THEN @
                                                          ELSE (name[1] :> r.route) @@ @,
                                         !.routes = Append(@, r.route)]]

\* as MapperAddWrapper, but the new wrapper becomes the innermost one
MapperAddWrapper_innermost(mp, wrapper) == [mp EXCEPT !.wrappers = <<wrapper>> \o @]

\* Mapper.add_wrapper(wrapper): the wrappers in the order they were added
MapperAddWrapper(mp, wrapper) == [mp EXCEPT !.wrappers = Append(@, wrapper)]

(***************************************************************************)
(* sorted() and ', '.join / split(',') for the Allow header.  The header    *)
(* value is modelled by the list of its comma-separated items.              *)
(***************************************************************************)
\* the order of the strings that get sorted, under string comparison
StrRank(v) ==
    CASE v = "" -> 0 [] v = "Accept" -> 1 [] v = "Content-Type" -> 2 [] v = "Cookie" -> 3
      [] v = "DELETE" -> 4 [] v = "GET" -> 5 [] v = "HEAD" -> 6 [] v = "OPTIONS" -> 7
      [] v = "PATCH" -> 8 [] v = "POST" -> 9 [] v = "PUT" -> 10 [] v = "accept" -> 11

RECURSIVE sorted(_)
sorted(S) ==
    IF S = {} THEN << >>
    ELSE LET m == CHOOSE x \in S : \A y \in S : StrRank(x) <= StrRank(y)
         IN  <<m>> \o sorted(S \ {m})

\* allow.split(','), each item stripped
SplitAllow(allow) == IF allow = << >> THEN <<"">> ELSE allow

(***************************************************************************)
(* Responses (response.py Response) and the responses of HTTP exceptions    *)
(* (errors.py).  headers is the list of (name, value) pairs of              *)
(* wsgiref.headers.Headers, whose look-ups ignore case.                     *)
(***************************************************************************)
Lower(name) ==
    CASE name = "Date" -> "date" [] name = "ETag" -> "etag"
      [] name = "Content-Location" -> "content-location" [] name = "Expires" -> "expires"
      [] name = "Cache-Control" -> "cache-control" [] name = "Vary" -> "vary"
      [] name = "Content-Type" -> "content-type" [] name = "Content-Length" -> "content-length"
      [] name = "Last-Modified" -> "last-modified" [] name = "Set-Cookie" -> "set-cookie"
      [] name = "Allow" -> "allow" [] name = "Content-Encoding" -> "content-encoding"
      [] name = "Content-Language" -> "content-language" [] name = "Content-MD5" -> "content-md5"
      [] name = "Content-Range" -> "content-range" [] name = "Location" -> "location"
      [] name = "X-Custom" -> "x-custom" [] name = "Accept" -> "accept"
      [] name = "Cookie" -> "cookie"
      [] OTHER -> name

HasHeader(headers, name) == \E i \in 1..Len(headers) : Lower(headers[i][1]) = Lower(name)

\* Headers.get(name): the first value, or None
GetHeader(headers, name) ==
    IF HasHeader(headers, name)
    THEN Some(headers[CHOOSE i \in 1..Len(headers) :
                  /\ Lower(headers[i][1]) = Lower(name)
                  /\ \A j \in 1..(i - 1) : Lower(headers[j][1]) # Lower(name)][2])
    ELSE None

\* Headers.__setitem__: delete every header of that name, then append
SetHeader(headers, name, value) ==
    Append(SelectSeq(headers, LAMBDA h : Lower(h[1]) # Lower(name)), <<name, value>>)

\* Headers.setdefault
SetDefaultHeader(headers, name, value) ==
    IF HasHeader(headers, name) THEN headers ELSE Append(headers, <<name, value>>)

\* Response(status, headers, body): a fresh response has no callbacks
Response(status, headers, body) ==
    [status |-> status, headers |-> headers, body |-> body, callbacks |-> << >>]

\* HTTPException.__init__: the pre-built response of an exception class
ExcResponse(code) == Response(code, <<<<"Content-Type", <<"text/html">>>>>>, "str")

HttpExc(code) == [k |-> "exc", type |-> "HTTPException", resp |-> ExcResponse(code)]
OtherExc(type) == [k |-> "exc", type |-> type, resp |-> ExcResponse(500)]

(***************************************************************************)
(* Content negotiation (resource.py).  A media range is one of a few        *)
(* strings; parse_media_range is the table of their parsed forms, with the  *)
(* quality factor in tenths.                                                *)
(***************************************************************************)
parse_media_range(mr) ==
    CASE mr = "*/*" -> [type |-> "*", subtype |-> "*", q |-> 10]
      [] mr = "text/*" -> [type |-> "text", subtype |-> "*", q |-> 10]
      [] mr = "text/html" -> [type |-> "text", subtype |-> "html", q |-> 10]
      [] mr = "text/plain" -> [type |-> "text", subtype |-> "plain", q |-> 10]
      [] mr = "application/json" -> [type |-> "application", subtype |-> "json", q |-> 10]
      [] mr = "text/html;q=0.5" -> [type |-> "text", subtype |-> "html", q |-> 5]

\* the order of the media range strings under string comparison
MediaRank(mr) ==
    CASE mr = "*/*" -> 1 [] mr = "application/json" -> 2 [] mr = "text/*" -> 3
      [] mr = "text/html" -> 4 [] mr = "text/html;q=0.5" -> 5 [] mr = "text/plain" -> 6

MIMEPARSE_NO_MATCH == <<-1, 0>>

RECURSIVE FitnessFold(_, _, _, _)
FitnessFold(target, parsed_ranges, i, best) ==
    IF i > Len(parsed_ranges) THEN best
    ELSE LET r == parsed_ranges[i]
             type_match == r.type = target.type \/ r.type = "*" \/ target.type = "*"
             subtype_match == r.subtype = target.subtype \/ r.subtype = "*"
                                  \/ target.subtype = "*"
             fitness == (IF r.type = target.type THEN 100 ELSE 0)
                          + (IF r.subtype = target.subtype THEN 10 ELSE 0)
         IN  IF type_match /\ subtype_match /\ fitness > best[1]
             THEN FitnessFold(target, parsed_ranges, i + 1, <<fitness, r.q>>)
             ELSE FitnessFold(target, parsed_ranges, i + 1, best)

\* mimeparse.fitness_and_quality_parsed(mime_type, parsed_ranges): <<fitness, quality>>
fitness_and_quality_parsed(mime_type, parsed_ranges) ==
    FitnessFold(parse_media_range(mime_type), parsed_ranges, 1, MIMEPARSE_NO_MATCH)

\* tuple comparison of (score, media range) pairs
ScoreLess(a, b) ==
    \/ a[1][1] < b[1][1]
    \/ a[1][1] = b[1][1] /\ a[1][2] < b[1][2]
    \/ a[1] = b[1] /\ MediaRank(a[2]) < MediaRank(b[2])

\* as negotiate_content_type, but the handlers are not reduced to the best fit
negotiate_content_type_unfiltered(content_type, handlers) ==
    LET scored == [i \in 1..Len(handlers) |->
                      fitness_and_quality_parsed(content_type,
                          <<parse_media_range(handlers[i].accepts)>>)]
    IN  IF \A i \in 1..Len(scored) : scored[i][2] = 0 THEN << >> ELSE handlers

\* negotiate_content_type(content_type, handlers)
negotiate_content_type(content_type, handlers) ==
    LET scored == [i \in 1..Len(handlers) |->
                      <<fitness_and_quality_parsed(content_type,
                            <<parse_media_range(handlers[i].accepts)>>), handlers[i].accepts>>]
        top == scored[CHOOSE i \in 1..Len(scored) :
                          \A j \in 1..Len(scored) : ~ScoreLess(scored[i], scored[j])]
        best_score == top[1]
        best_range == top[2]
    IN  IF best_score = MIMEPARSE_NO_MATCH \/ best_score[2] = 0 THEN << >>
        ELSE SelectSeq(handlers, LAMBDA h : h.accepts = best_range)

\* mimeparse.best_match(supported, header): "" when nothing is acceptable
best_match(supported, header) ==
    LET parsed_header == [i \in 1..Len(header) |-> parse_media_range(header[i])]
        weighted == [pos \in 1..Len(supported) |->
                        <<fitness_and_quality_parsed(supported[pos], parsed_header), pos>>]
        less(a, b) == \/ a[1][1] < b[1][1]
                      \/ a[1][1] = b[1][1] /\ a[1][2] < b[1][2]
                      \/ a[1] = b[1] /\ a[2] < b[2]
        last == CHOOSE i \in 1..Len(weighted) :
                    \A j \in 1..Len(weighted) : ~less(weighted[i], weighted[j])
    IN  IF weighted[last][1][2] # 0 THEN supported[last] ELSE ""

reversed(s) == [i \in 1..Len(s) |-> s[Len(s) + 1 - i]]

\* negotiate_accept(accept, handlers)
negotiate_accept(accept, handlers) ==
    IF \E i \in 1..Len(handlers) : handlers[i].provides = None
    THEN SelectSeq(handlers, LAMBDA h : h.provides = None)
    ELSE LET provided == [i \in 1..Len(handlers) |-> handlers[i].provides[1]]
             best == best_match(reversed(provided), accept)
         IN  SelectSeq(handlers, LAMBDA h : h.provides[1] = best)

\* handler_metadata.create(verb, view, accepts, provides), for the function fn
handler_metadata(fn, verb, view, accepts, provides) ==
    [fn |-> fn, verb |-> verb, view |-> view,
     accepts |-> IF accepts = None THEN "*/*" ELSE accepts[1], provides |-> provides]

NoHandler == handler_metadata("", "", None, None, None)

\* the view named by a route name: the part after the first ';', if not empty
ViewOf(route_name) ==
    IF route_name # None /\ route_name[1] # << >> /\ Find(route_name[1], ";") > -1
    THEN LET v == AfterFirst(route_name[1], ";") IN IF v = << >> THEN None ELSE Some(v)
    ELSE None

\* as allowed_methods, but HEAD is never added
allowed_methods_without_head(keys) == keys

\* resolve_handler: the methods of the Allow header of MethodNotAllowed
allowed_methods(keys) ==
    IF "HEAD" \notin keys /\ "GET" \in keys THEN keys \cup {"HEAD"} ELSE keys

\* resolve_handler(request, view_handlers): [err, handler, vary, allow]
resolve_handler(route_name, method, content_type, accept, view_handlers) ==
    LET view == ViewOf(route_name)
        none == [err |-> "NotFound", handler |-> NoHandler, vary |-> {}, allow |-> << >>]
    IN  IF view \notin DOMAIN view_handlers THEN none
        ELSE
        LET method_handlers == view_handlers[view]
            keys == DOMAIN method_handlers
            head_as_get == method \notin keys /\ method = "HEAD" /\ "GET" \in keys
            verb == IF head_as_get THEN "GET" ELSE method
        IN  IF verb \notin keys
            THEN [none EXCEPT !.err = "MethodNotAllowed", !.allow = sorted(allowed_methods(keys))]
            ELSE
            LET handlers == method_handlers[verb]
                provided == {handlers[i].provides : i \in 1..Len(handlers)} \ {None}
                accepted == {handlers[i].accepts : i \in 1..Len(handlers)}
                vary == (IF Cardinality(provided) > 1 THEN {"Accept"} ELSE {})
                          \cup (IF Cardinality(accepted) > 1 THEN {"Content-Type"} ELSE {})
                h1 == IF content_type # None /\ content_type[1] # ""
                      THEN negotiate_content_type(content_type[1], handlers) ELSE handlers
                h2 == IF accept # None /\ accept[1] # << >>
                      THEN negotiate_accept(accept[1], h1) ELSE h1
            IN  IF h1 = << >> THEN [none EXCEPT !.err = "UnsupportedMediaType"]
                ELSE IF h2 = << >> THEN [none EXCEPT !.err = "NotAcceptable"]
                ELSE [err |-> "ok", handler |-> h2[1], vary |-> vary, allow |-> << >>]

\* Resource._handler_lookup[handler]: the metadata tuple (verb, view, accepts,
\* provides) is the key, so of the functions registered with equal metadata
\* the one registered last is found
handler_lookup(view_handlers, meta) ==
    LET hs == view_handlers[meta.view][meta.verb]
        same == {i \in 1..Len(hs) : hs[i].accepts = meta.accepts
                                       /\ hs[i].provides = meta.provides}
    IN  hs[CHOOSE i \in same : \A j \in same : j <= i].fn

\* make_response(obj)
make_response(rv) ==
    IF rv.k = "None" THEN OtherExc("TypeError")
    ELSE IF rv.k = "resp" THEN rv
    ELSE [k |-> "resp", resp |-> Response(200, << >>, rv.body)]

(***************************************************************************)
(* Conditional requests (http.py, response.py).  A header value is the list *)
(* of its comma-separated items, so the empty string is the empty list.     *)
(* Entity tags and dates are a few strings with the tables of what          *)
(* etag_re and email.utils.parsedate make of them.                          *)
(***************************************************************************)
\* etag_re.match(etag).groups(): [ok, weak, tag]
etag_match(etag) ==
    CASE etag = "\"x\"" -> [ok |-> TRUE, weak |-> FALSE, tag |-> "\"x\""]
      [] etag = "\"y\"" -> [ok |-> TRUE, weak |-> FALSE, tag |-> "\"y\""]
      [] etag = "W/\"x\"" -> [ok |-> TRUE, weak |-> TRUE, tag |-> "\"x\""]
      [] etag = "W/\"y\"" -> [ok |-> TRUE, weak |-> TRUE, tag |-> "\"y\""]
      [] OTHER -> [ok |-> FALSE, weak |-> FALSE, tag |-> ""]

\* parse_etag_header(header): '*' (star), or the list of tags, empty if the
\* header does not parse
parse_etag_header(header) ==
    IF header = <<"*">> THEN [star |-> TRUE, tags |-> << >>]
    ELSE IF \A i \in 1..Len(header) : etag_match(header[i]).ok
         THEN [star |-> FALSE, tags |-> [i \in 1..Len(header) |-> etag_match(header[i])]]
         ELSE [star |-> FALSE, tags |-> << >>]

\* as match_etag, but always with the strong comparison
match_etag_strong(etag, header, weak) ==
    LET m == etag_match(etag[1])
        parsed_header == parse_etag_header(header)
        tags == parsed_header.tags
    IN  IF ~m.ok THEN [err |-> "ValueError", matched |-> FALSE]
        ELSE IF parsed_header.star THEN [err |-> "ok", matched |-> TRUE]
        ELSE IF m.weak THEN [err |-> "ok", matched |-> FALSE]
        ELSE [err |-> "ok",
              matched |-> \E i \in 1..Len(tags) : ~tags[i].weak /\ tags[i].tag = m.tag]

\* match_etag(etag, header, weak): [err, matched]
match_etag(etag, header, weak) ==
    LET m == etag_match(etag[1])
        parsed_header == parse_etag_header(header)
        tags == parsed_header.tags
    IN  IF ~m.ok THEN [err |-> "ValueError", matched |-> FALSE]
        ELSE IF parsed_header.star THEN [err |-> "ok", matched |-> TRUE]
        ELSE IF m.weak /\ ~weak THEN [err |-> "ok", matched |-> FALSE]
        ELSE IF weak
             THEN [err |-> "ok", matched |-> \E i \in 1..Len(tags) : tags[i].tag = m.tag]
             ELSE [err |-> "ok",
                   matched |-> \E i \in 1..Len(tags) : ~tags[i].weak /\ tags[i].tag = m.tag]

\* httpdate_to_timestamp(s): [ok, ts]; parsedate gives None for what is no date
httpdate_to_timestamp(s) ==
    CASE s = <<"d1">> -> [ok |-> TRUE, ts |-> 1]
      [] s = <<"d2">> -> [ok |-> TRUE, ts |-> 2]
      [] s = <<"d3">> -> [ok |-> TRUE, ts |-> 3]
      [] OTHER -> [ok |-> FALSE, ts |-> 0]

entity_headers ==
    {"allow", "content-encoding", "content-language", "content-length", "content-location",
     "content-md5", "content-range", "content-type", "expires", "last-modified"}

include_in_304 == {"date", "etag", "content-location", "expires", "cache-control", "vary"}

filter_from_304 == entity_headers \ include_in_304

\* as filter_304_headers, but only the headers to include in a 304 are kept
filter_304_headers_included_only(headers) ==
    SelectSeq(headers, LAMBDA h : Lower(h[1]) \in include_in_304)

\* filter_304_headers(headers)
filter_304_headers(headers) == SelectSeq(headers, LAMBDA h : Lower(h[1]) \notin filter_from_304)

NOW == <<"now">>

\* Response.conditional_to(request): [err, resp]
conditional_to(self, if_none_match, if_modified_since) ==
    LET sent_inm == if_none_match # None /\ if_none_match[1] # << >>
        sent_ims == if_modified_since # None /\ if_modified_since[1] # << >>
        etag == GetHeader(self.headers, "ETag")
        has_etag == etag # None /\ etag[1] # << >>
        me == IF sent_inm /\ has_etag THEN match_etag(etag[1], if_none_match[1], TRUE)
              ELSE [err |-> "ok", matched |-> FALSE]
        etag_ok == me.matched
        last_modified == GetHeader(self.headers, "Last-Modified")
        modified_ts == httpdate_to_timestamp(last_modified[1])
        last_valid_ts == httpdate_to_timestamp(if_modified_since[1])
        date_ok == /\ sent_ims
                   /\ last_modified # None /\ last_modified[1] # << >>
                   /\ modified_ts.ok /\ last_valid_ts.ok
                   /\ modified_ts.ts <= last_valid_ts.ts
        headers == filter_304_headers(self.headers)
    IN  IF self.status # 200 THEN [err |-> "ok", resp |-> self]
        ELSE IF me.err # "ok" THEN [err |-> me.err, resp |-> self]
        ELSE IF sent_inm /\ ~etag_ok THEN [err |-> "ok", resp |-> self]
        ELSE IF sent_ims /\ ~date_ok THEN [err |-> "ok", resp |-> self]
        ELSE IF etag_ok \/ date_ok
             THEN [err |-> "ok",
                   resp |-> Response(304,
                                IF HasHeader(self.headers, "Date") THEN headers
                                ELSE Append(headers, <<"Date", NOW>>),
                                "")]
             ELSE [err |-> "ok", resp |-> self]

(***************************************************************************)
(* Response.__call__: the body kinds are "" (empty string), "str", "iter",  *)
(* "thunk" (a callable that returns a string), "thunk_none" (a callable     *)
(* that returns None) and "bad" (any other type).                           *)
(***************************************************************************)
\* what a callable body returns: the thunk "thunk" a string, the thunk
\* "thunk_none" None
ThunkResult(raw_body) == IF raw_body = "thunk" THEN "str" ELSE "None"

\* as Response_body, but the value is never kept in _body
Response_body_uncached(raw_body, _body) ==
    LET is_callable == raw_body \in {"thunk", "thunk_none"}
    IN  [value |-> IF is_callable THEN ThunkResult(raw_body) ELSE raw_body,
         _body |-> _body, invoked |-> is_callable]

\* the property Response.body of a response without a body writer, with raw
\* body raw_body and cached value _body (None, or the value in a 1-tuple):
\* [value, _body, invoked], the value returned, _body afterwards and whether
\* the callable was called
Response_body(raw_body, _body) ==
    LET is_callable == raw_body \in {"thunk", "thunk_none"}
        value == IF is_callable THEN ThunkResult(raw_body) ELSE raw_body
    IN  IF _body = None
        THEN [value |-> value, _body |-> IF value = "None" THEN None ELSE Some(value),
              invoked |-> is_callable]
        ELSE [value |-> _body[1], _body |-> _body, invoked |-> FALSE]

\* Response.body of a response whose body was not read before
BodyOf(self) == Response_body(self.body, None).value

\* as ResponseCall, but the body of the answer to a HEAD request is kept
ResponseCall_keeps_head_body(self, request_method) ==
    LET body == BodyOf(self)
    IN  IF body \notin {"", "str", "iter"}
        THEN [err |-> "TypeError", status |-> 0, headers |-> << >>, body |-> "",
              callbacks |-> << >>]
        ELSE [err |-> "ok", status |-> self.status, headers |-> self.headers,
              body |-> IF self.status \in {204, 304} THEN "" ELSE body,
              callbacks |-> self.callbacks]

\* Response.__call__(environ, start_response): [err, status, headers, body, callbacks]
ResponseCall(self, request_method) ==
    LET body == BodyOf(self)
        h1 == IF self.status # 304
              THEN SetDefaultHeader(self.headers, "Content-Type", <<"text/plain; charset=utf-8">>)
              ELSE self.headers
        h2 == IF self.status # 304 /\ body \in {"", "str"}
              THEN SetDefaultHeader(h1, "Content-Length", <<"len">>)
              ELSE h1
        h3 == IF HasHeader(h2, "Location")
              THEN SetHeader(h2, "Location", <<"abs">> \o GetHeader(h2, "Location")[1])
              ELSE h2
    IN  IF body \notin {"", "str", "iter"}
        THEN [err |-> "TypeError", status |-> 0, headers |-> << >>, body |-> "",
              callbacks |-> << >>]
        ELSE [err |-> "ok", status |-> self.status, headers |-> h3,
              body |-> IF self.status \in {204, 304} \/ request_method = "HEAD"
                       THEN "" ELSE body,
              callbacks |-> self.callbacks]

(***************************************************************************)
(* State.  One request travels from the WSGI entry point through the        *)
(* wrapper chains, the dispatch loops and a resource, and back.             *)
(***************************************************************************)
VARIABLES
    mappers,    \* mapper id -> Mapper object, as Mapper.add and add_wrapper built it
    resources,  \* resource id -> Resource._handlers (view -> verb -> handlers)
    environ,    \* the WSGI environ of the request
    context,    \* Request._context: the stack of (root, mapper, route) frames
    ctx,        \* the Context object of the request
    pc,         \* the control point: [op, m, i]
    stack,      \* the calls that wait for a result
    ret,        \* the value being returned or the exception being raised
    handler,    \* Resource.__call__'s locals: the resolved handler and vary
    response,   \* Mapper.wsgi's local: the response to send
    wsgi,       \* what the WSGI server got: start_response calls and the iterator
    events,     \* the calls made so far, in order
    tpl,        \* a template, a parameter assignment and what was made of them
    cond        \* a response, two request headers and the conditional result

pipeline == <<mappers, resources, environ, context, ctx, pc, stack, ret, handler,
              response, wsgi, events>>

vars == <<mappers, resources, environ, context, ctx, pc, stack, ret, handler,
          response, wsgi, events, tpl, cond>>

callback_phases == {"enter", "leave", "finalize", "teardown", "close"}

\* Context.__init__
\* Context(request): no properties, no callbacks; attrs is the part of the
\* instance dictionary that setattr in __getattr__ fills
NewContext ==
    [callbacks |-> [ph \in callback_phases |-> << >>], properties |-> NoGroups,
     attrs |-> NoGroups]

\* Context.add_property(name, fn, cached): the factory fn is named as the property
Context_add_property(c, name, cached) ==
    IF name \in DOMAIN c.properties THEN [err |-> "KeyError", ctx |-> c]
    ELSE [err |-> "",
          ctx |-> [c EXCEPT !.properties = @ @@ (name :> [fn |-> name, cached |-> cached])]]

\* as Context_getattr, but the value of a cached property is not stored
Context_getattr_never_stored(c, name, produced) ==
    IF name \in DOMAIN c.attrs
    THEN [err |-> "", value |-> c.attrs[name], invoked |-> FALSE, ctx |-> c]
    ELSE IF name \notin DOMAIN c.properties
    THEN [err |-> "AttributeError", value |-> 0, invoked |-> FALSE, ctx |-> c]
    ELSE [err |-> "", value |-> produced, invoked |-> TRUE, ctx |-> c]

\* the attribute access ctx.<name>, for a name that is no attribute of the class
\* or of a new instance: the instance dictionary is looked up first and
\* Context.__getattr__ is called for a name it does not have; produced is the
\* value the factory returns if it is invoked
Context_getattr(c, name, produced) ==
    IF name \in DOMAIN c.attrs
    THEN [err |-> "", value |-> c.attrs[name], invoked |-> FALSE, ctx |-> c]
    ELSE IF name \notin DOMAIN c.properties
    THEN [err |-> "AttributeError", value |-> 0, invoked |-> FALSE, ctx |-> c]
    ELSE [err |-> "", value |-> produced, invoked |-> TRUE,
          ctx |-> IF c.properties[name].cached
                  THEN [c EXCEPT !.attrs = @ @@ (name :> produced)] ELSE c]

\* Context._run_callbacks(phase): the event of running the phase's callbacks
RunCallbacks(c, phase) == [e |-> "callbacks", phase |-> phase, fns |-> c.callbacks[phase]]

RECURSIVE ResourceFold(_, _, _)
ResourceFold(metas, i, hs) ==
    IF i > Len(metas) THEN hs
    ELSE LET m == metas[i]
             byverb == IF m.view \in DOMAIN hs THEN hs[m.view] ELSE [v \in {} |-> << >>]
             list == IF m.verb \in DOMAIN byverb THEN byverb[m.verb] ELSE << >>
         IN  ResourceFold(metas, i + 1,
                 (m.view :> ((m.verb :> Append(list, m)) @@ byverb)) @@ hs)

\* Resource.__init__(wrapped): the handler table of the wrapped object's metadata
ResourceInit(metas) == ResourceFold(metas, 1, [v \in {} |-> << >>])

TargetKind(id) ==
    CASE id \in {"A", "B"} -> "resource"
      [] id \in {"M1", "M2", "M3"} -> "mapper"
      [] OTHER -> "callable"

NoRet == [k |-> "none"]
RetResp(r) == [k |-> "resp", resp |-> r]
RetNone == [k |-> "None"]
RetValue(b) == [k |-> "value", body |-> b]

Idle == [stage |-> "idle"]
PC(op, m, i) == [op |-> op, m |-> m, i |-> i]
Log(ev) == events' = Append(events, ev)

(***************************************************************************)
(* The actions of the request pipeline.                                     *)
(***************************************************************************)
Methods == {"GET", "HEAD", "OPTIONS", "POST"}
Paths == {<<"/", "a">>, <<"/", "m", "/", "b">>, <<"/", "m">>, <<"/", "x", "/", "b">>}
IfNoneMatchValues == {None, Some(<<"\"x\"">>)}
IfModifiedSinceValues == {None, Some(<<"d2">>)}

\* Mapper.wsgi, its first two lines: Request(environ) and Context(request)
WsgiBegin ==
    /\ pc.op = "idle"
    /\ \E method \in Methods, path \in Paths,
          inm \in IfNoneMatchValues, ims \in IfModifiedSinceValues :
          environ' = [REQUEST_METHOD |-> method, SCRIPT_NAME |-> << >>, PATH_INFO |-> path,
                      routing_args |-> NoGroups, HTTP_IF_NONE_MATCH |-> inm,
                      HTTP_IF_MODIFIED_SINCE |-> ims, CONTENT_TYPE |-> None,
                      HTTP_ACCEPT |-> None]
    /\ context' = << >>
    /\ ctx' = NewContext
    /\ stack' = <<[k |-> "wsgi", m |-> "M1", i |-> 0]>>
    /\ pc' = PC("mapper", "M1", 0)
    /\ Log([e |-> "wsgi"])
    /\ UNCHANGED <<mappers, resources, ret, handler, response, wsgi, tpl, cond>>

\* Mapper.__call__: set up the context, then call the wrapped dispatch
MapperCall ==
    /\ pc.op = "mapper"
    /\ pc' = PC("wrapped", pc.m, Len(mappers[pc.m].wrappers))
    /\ Log([e |-> "mapper", m |-> pc.m])
    /\ UNCHANGED <<mappers, resources, environ, context, ctx, stack, ret, handler,
                   response, wsgi, tpl, cond>>

\* the wrapper installed by the i-th add_wrapper call is entered
WrapperEnter ==
    /\ pc.op = "wrapped" /\ pc.i > 0
    /\ LET w == mappers[pc.m].wrappers[pc.i] IN
       /\ Log([e |-> "wrapper_enter", m |-> pc.m, w |-> w.id])
       /\ IF w.kind = "short"
          THEN /\ ret' = RetResp(Response(200, << >>, "str"))
               /\ pc' = PC("return", pc.m, 0)
               /\ UNCHANGED <<stack, ctx>>
          ELSE /\ stack' = Append(stack, [k |-> "wrapper", m |-> pc.m, i |-> w.id])
               /\ pc' = PC("wrapped", pc.m, pc.i - 1)
               /\ ctx' = IF w.kind = "callbacks"
                         THEN [ctx EXCEPT !.callbacks =
                                  [ph \in callback_phases |-> Append(@[ph], <<pc.m, w.id>>)]]
                         ELSE ctx
               /\ UNCHANGED ret
    /\ UNCHANGED <<mappers, resources, environ, context, handler, response, wsgi, tpl, cond>>

\* Mapper.dispatch, up to its loop
Dispatch ==
    /\ pc.op = "wrapped" /\ pc.i = 0
    /\ context' = Append(context, [root |-> environ.SCRIPT_NAME, mapper |-> pc.m,
                                   route |-> None])
    /\ pc' = PC("route", pc.m, 1)
    /\ Log([e |-> "dispatch", m |-> pc.m, path_info |-> environ.PATH_INFO])
    /\ UNCHANGED <<mappers, resources, environ, ctx, stack, ret, handler, response,
                   wsgi, tpl, cond>>

\* what a plain callable target may do with a request
CallableOutcomes ==
    {RetResp(Response(200, << >>, "str")), RetNone, [k |-> "other"],
     HttpExc(403), OtherExc("Exception")}

\* as route_environ, but PATH_INFO is left as it was
route_environ_keeps_path_info(route, env, match) ==
    LET path == env.PATH_INFO
    IN  [env EXCEPT !.routing_args = match.groups @@ @,
                    !.SCRIPT_NAME = IF route.is_anchored THEN @
                                    ELSE @ \o SubSeq(path, 1, match.end)]

\* as route_environ, but SCRIPT_NAME is left as it was
route_environ_keeps_script_name(route, env, match) ==
    LET path == env.PATH_INFO
    IN  [env EXCEPT !.routing_args = match.groups @@ @,
                    !.PATH_INFO = IF route.is_anchored THEN @
                                  ELSE SubSeq(path, match.end + 1, Len(path))]

\* Route.__call__, for a match: the routing arguments, and for a route that is
\* not anchored the new SCRIPT_NAME and PATH_INFO
route_environ(route, env, match) ==
    LET path == env.PATH_INFO
    IN  [env EXCEPT !.routing_args = match.groups @@ @,
                    !.SCRIPT_NAME = IF route.is_anchored THEN @
                                    ELSE @ \o SubSeq(path, 1, match.end),
                    !.PATH_INFO = IF route.is_anchored THEN @
                                  ELSE SubSeq(path, match.end + 1, Len(path))]

\* one turn of the loop of Mapper.dispatch: Route.__call__ for route pc.i,
\* or NotFound after the last route
RouteCall ==
    /\ pc.op = "route"
    /\ IF pc.i > Len(mappers[pc.m].routes)
       THEN /\ ret' = HttpExc(404)
            /\ pc' = PC("raise", pc.m, 0)
            /\ Log([e |-> "NotFound", m |-> pc.m])
            /\ UNCHANGED <<environ, context, stack>>
       ELSE LET route == mappers[pc.m].routes[pc.i]
                path == environ.PATH_INFO
                match == re_match(route.regex, path)
                env == route_environ(route, environ, match)
            IN  IF ~match.ok
                THEN /\ pc' = PC("route", pc.m, pc.i + 1)
                     /\ UNCHANGED <<environ, context, stack, ret, events>>
                ELSE /\ context' = [context EXCEPT ![Len(context)].route = Some(pc.i)]
                     /\ environ' = env
                     /\ stack' = Append(stack, [k |-> "dispatch", m |-> pc.m, i |-> pc.i])
                     /\ pc' = PC(TargetKind(route.resource), route.resource, 0)
                     /\ Log([e |-> "target", target |-> route.resource, m |-> pc.m,
                             i |-> pc.i, script_name |-> env.SCRIPT_NAME,
                             path_info |-> env.PATH_INFO,
                             was_script_name |-> environ.SCRIPT_NAME, was_path_info |-> path])
                     /\ UNCHANGED ret
    /\ UNCHANGED <<mappers, resources, ctx, handler, response, wsgi, tpl, cond>>

\* a plain callable target is called
CallableCall ==
    /\ pc.op = "callable"
    /\ \E out \in CallableOutcomes :
          /\ ret' = out
          /\ pc' = PC(IF out.k = "exc" THEN "raise" ELSE "return", pc.m, 0)
    /\ Log([e |-> "callable", target |-> pc.m])
    /\ UNCHANGED <<mappers, resources, environ, context, ctx, stack, handler, response,
                   wsgi, tpl, cond>>

\* Resource.__call__, up to the call of the handler
ResourceEnter ==
    /\ pc.op = "resource"
    /\ LET frame == context[Len(context)]
           route == mappers[frame.mapper].routes[frame.route[1]]
           rh == resolve_handler(route.name, environ.REQUEST_METHOD, environ.CONTENT_TYPE,
                                 environ.HTTP_ACCEPT, resources[pc.m])
           allow == sorted(SeqToSet(SplitAllow(rh.allow)) \cup {"OPTIONS"})
           resolved == [e |-> "resolve_handler", target |-> pc.m, name |-> route.name,
                        err |-> rh.err, handler |-> rh.handler]
       IN  CASE rh.err = "ok" ->
                  /\ handler' = [meta |-> rh.handler, vary |-> rh.vary]
                  /\ pc' = PC("handler", pc.m, 0)
                  /\ events' = events \o <<resolved, RunCallbacks(ctx, "enter")>>
                  /\ UNCHANGED ret
             [] rh.err = "MethodNotAllowed" /\ environ.REQUEST_METHOD = "OPTIONS" ->
                  /\ ret' = RetResp(Response(200, <<<<"Allow", allow>>>>, ""))
                  /\ pc' = PC("return", pc.m, 0)
                  /\ Log(resolved)
                  /\ UNCHANGED handler
             [] rh.err = "MethodNotAllowed" /\ environ.REQUEST_METHOD # "OPTIONS" ->
                  /\ ret' = [HttpExc(405) EXCEPT !.resp.headers = SetHeader(@, "Allow", allow)]
                  /\ pc' = PC("raise", pc.m, 0)
                  /\ Log(resolved)
                  /\ UNCHANGED handler
             [] OTHER ->
                  /\ ret' = HttpExc(CASE rh.err = "NotFound" -> 404
                                      [] rh.err = "UnsupportedMediaType" -> 415
                                      [] rh.err = "NotAcceptable" -> 406)
                  /\ pc' = PC("raise", pc.m, 0)
                  /\ Log(resolved)
                  /\ UNCHANGED handler
    /\ UNCHANGED <<mappers, resources, environ, context, ctx, stack, response, wsgi,
                   tpl, cond>>

\* what a handler function may do with a request
HandlerResults ==
    {RetResp(Response(200, <<<<"ETag", <<"\"x\"">>>>, <<"Last-Modified", <<"d1">>>>,
                             <<"Content-Type", <<"text/html">>>>, <<"X-Custom", <<"c">>>>>>, "str")),
     RetResp(Response(200, << >>, "thunk")),
     RetResp(Response(204, << >>, "")),
     RetResp(Response(200, <<<<"Vary", <<"accept", "Cookie">>>>>>, "str")),
     RetValue("str"), RetValue("bad"), RetNone,
     HttpExc(403), OtherExc("Exception")}

\* the handler function is called
HandlerCall ==
    /\ pc.op = "handler"
    /\ \E rv \in HandlerResults :
          /\ ret' = rv
          /\ pc' = PC(IF rv.k = "exc" THEN "raise" ELSE "leave", pc.m, 0)
    /\ Log([e |-> "handler", fn |-> handler_lookup(resources[pc.m], handler.meta),
            verb |-> handler.meta.verb,
            rv |-> ret'.k])
    /\ UNCHANGED <<mappers, resources, environ, context, ctx, stack, handler, response,
                   wsgi, tpl, cond>>

\* the Vary header after the names in vary are merged into it
MergeVary(headers, vary) ==
    LET old == GetHeader(headers, "Vary")
        vary_items == (IF old = None THEN {} ELSE SeqToSet(old[1]) \ {""}) \cup vary
    IN  SetHeader(headers, "Vary", sorted(vary_items))

\* Resource.__call__, after the handler returned
ResourceLeave ==
    /\ pc.op = "leave"
    /\ LET r == make_response(ret)
           h1 == IF handler.meta.provides # None /\ handler.meta.provides[1] # ""
                 THEN SetDefaultHeader(r.resp.headers, "Content-Type", <<handler.meta.provides[1]>>)
                 ELSE r.resp.headers
           h2 == IF handler.vary # {} THEN MergeVary(h1, handler.vary) ELSE h1
       IN  IF r.k = "exc"
           THEN /\ ret' = r
                /\ pc' = PC("raise", pc.m, 0)
                /\ UNCHANGED events
           ELSE /\ ret' = RetResp([r.resp EXCEPT !.headers = h2])
                /\ pc' = PC("return", pc.m, 0)
                /\ Log(RunCallbacks(ctx, "leave"))
    /\ UNCHANGED <<mappers, resources, environ, context, ctx, stack, handler, response,
                   wsgi, tpl, cond>>

Top == stack[Len(stack)]
Pop == SubSeq(stack, 1, Len(stack) - 1)

\* a forwarding wrapper gets the result of the application it wraps and hands it on
WrapperExit ==
    /\ pc.op \in {"return", "raise"}
    /\ stack # << >> /\ Top.k = "wrapper"
    /\ stack' = Pop
    /\ Log([e |-> "wrapper_exit", m |-> Top.m, w |-> Top.i, op |-> pc.op])
    /\ UNCHANGED <<mappers, resources, environ, context, ctx, pc, ret, handler, response,
                   wsgi, tpl, cond>>

\* Mapper.dispatch gets the result of route(request, ctx)
DispatchReturn ==
    /\ pc.op \in {"return", "raise"}
    /\ stack # << >> /\ Top.k = "dispatch"
    /\ stack' = Pop
    /\ IF pc.op = "raise" THEN UNCHANGED <<pc, ret>>
       ELSE IF ret.k = "None"
            THEN /\ pc' = PC("route", Top.m, Top.i + 1)
                 /\ ret' = NoRet
       ELSE IF ret.k # "resp"
            THEN /\ pc' = PC("raise", Top.m, 0)
                 /\ ret' = OtherExc("TypeError")
       ELSE UNCHANGED <<pc, ret>>
    /\ Log([e |-> "dispatch_result", m |-> Top.m, i |-> Top.i, k |-> ret'.k])
    /\ UNCHANGED <<mappers, resources, environ, context, ctx, handler, response,
                   wsgi, tpl, cond>>

InternalServerError == ExcResponse(500)

\* Mapper.wsgi: the try statement around self(request, ctx) and conditional_to
WsgiReturn ==
    /\ pc.op \in {"return", "raise"}
    /\ stack # << >> /\ Top.k = "wsgi"
    /\ stack' = Pop
    /\ pc' = PC("finish", "M1", 0)
    /\ UNCHANGED ret
    /\ LET c == conditional_to(ret.resp, environ.HTTP_IF_NONE_MATCH,
                               environ.HTTP_IF_MODIFIED_SINCE)
       IN  IF pc.op = "raise"
           THEN IF ret.type = "HTTPException"
                THEN /\ response' = ret.resp
                     /\ UNCHANGED events
                ELSE /\ response' = InternalServerError
                     /\ Log([e |-> "handle_error", type |-> ret.type])
           ELSE IF ret.k # "resp"
                THEN /\ response' = InternalServerError
                     /\ Log([e |-> "handle_error", type |-> "AttributeError"])
           ELSE IF c.err # "ok"
                THEN /\ response' = InternalServerError
                     /\ events' = events \o <<[e |-> "conditional_to", code |-> 0],
                                              [e |-> "handle_error", type |-> c.err]>>
           ELSE /\ response' = c.resp
                /\ Log([e |-> "conditional_to", code |-> c.resp.status])
    /\ UNCHANGED <<mappers, resources, environ, context, ctx, handler, wsgi, tpl, cond>>

NoWsgi == [started |-> 0, status |-> 0, headers |-> << >>, body |-> "", callbacks |-> << >>]

\* Mapper.wsgi, after the try statement
WsgiFinish ==
    /\ pc.op = "finish"
    /\ LET r == [response EXCEPT !.callbacks = Append(@, "close")]
           out == ResponseCall(r, environ.REQUEST_METHOD)
           thunk == IF r.body = "thunk" THEN <<[e |-> "thunk"]>> ELSE << >>
       IN  /\ response' = r
           /\ IF out.err # "ok"
              THEN /\ pc' = PC("raised", "M1", 0)
                   /\ ret' = OtherExc(out.err)
                   /\ events' = events \o <<RunCallbacks(ctx, "finalize")>> \o thunk
                   /\ UNCHANGED wsgi
              ELSE /\ pc' = PC("returned", "M1", 0)
                   /\ ret' = NoRet
                   /\ wsgi' = [started |-> wsgi.started + 1, status |-> out.status,
                               headers |-> out.headers, body |-> out.body,
                               callbacks |-> out.callbacks]
                   /\ events' = events \o <<RunCallbacks(ctx, "finalize")>> \o thunk
                                  \o <<[e |-> "start_response", status |-> out.status],
                                       RunCallbacks(ctx, "teardown")>>
    /\ UNCHANGED <<mappers, resources, environ, context, ctx, stack, handler, tpl, cond>>

\* the WSGI server calls close() on the response iterator: ResponseBody.close
ServerClose ==
    /\ pc.op = "returned"
    /\ pc' = PC("closed", "M1", 0)
    /\ events' = events \o [i \in 1..Len(wsgi.callbacks) |->
                               IF wsgi.callbacks[i] = "close" THEN RunCallbacks(ctx, "close")
                               ELSE [e |-> "response_callback", fn |-> wsgi.callbacks[i]]]
    /\ UNCHANGED <<mappers, resources, environ, context, ctx, stack, ret, handler,
                   response, wsgi, tpl, cond>>

(***************************************************************************)
(* The applications served: mappers built by Mapper.add and add_wrapper     *)
(* calls, resources built from handler metadata.                            *)
(***************************************************************************)
MaxRoutes == 2
MaxWrappers == 2

SeqsUpTo(S, n) == UNION {[1..k -> S] : k \in 0..n}

AddCall(template, resource, name) ==
    [template |-> template, resource |-> resource, name |-> name]

RECURSIVE AddAll(_, _, _)
\* the mapper after the add calls adds[i..], none of which raises
AddAll(mp, adds, i) ==
    IF i > Len(adds) THEN mp
    ELSE AddAll(MapperAdd(mp, adds[i].template, adds[i].resource, adds[i].name).mapper,
                adds, i + 1)

RECURSIVE WrapAll(_, _, _)
WrapAll(mp, wrappers, i) ==
    IF i > Len(wrappers) THEN mp
    ELSE WrapAll(MapperAddWrapper(mp, [id |-> i, kind |-> wrappers[i]]), wrappers, i + 1)

BuildMapper(adds, wrappers) == WrapAll(AddAll(NewMapper, adds, 1), wrappers, 1)

RootAdds ==
    {AddCall(<<"/", "a">>, "A", None),
     AddCall(<<"/", "a">>, "F", None),
     AddCall(<<"/", "m", "|">>, "M2", None),
     AddCall(<<"/", "{", "p", "}">>, "B", None)}

BaseAdds ==
    <<AddCall(<<"/", "a">>, "A", None),
      AddCall(<<"/", "x", "/", "b">>, "A", Some(<<"n", ";", "e">>)),
      AddCall(<<"/", "m", "|">>, "M2", None)>>

InnerAdds ==
    <<AddCall(<<"/", "b">>, "B", None),
      AddCall(<<"/", "{", "q", "}">>, "F", None)>>

WrapperKinds == {"pass", "callbacks", "short"}

H(fn, verb, view) == handler_metadata(fn, verb, view, None, None)

HandlerSets ==
    {<<H("get", "GET", None)>>,
     <<H("get", "GET", None), H("post", "POST", None)>>,
     <<H("post", "POST", None), H("delete", "DELETE", None)>>,
     <<H("get", "GET", None), H("head", "HEAD", None)>>,
     <<H("options", "OPTIONS", None), H("get", "GET", None)>>,
     <<H("get", "GET", None), H("put", "PUT", Some(<<"e">>)), H("get_e", "GET", Some(<<"e">>))>>}

Config(adds, wrappers, hs) ==
    [mappers |-> ("M1" :> BuildMapper(adds, wrappers))
                   @@ ("M2" :> BuildMapper(InnerAdds, <<"pass">>)),
     resources |-> ("A" :> ResourceInit(hs))
                     @@ ("B" :> ResourceInit(<<H("get_b", "GET", None)>>))]

Configs ==
    {Config(adds, <<"callbacks">>, <<H("get", "GET", None)>>) :
        adds \in SeqsUpTo(RootAdds, MaxRoutes)}
    \cup {Config(BaseAdds, ws, <<H("get", "GET", None)>>) :
            ws \in SeqsUpTo(WrapperKinds, MaxWrappers)}
    \cup {Config(BaseAdds, <<"callbacks">>, hs) : hs \in HandlerSets}

NoEnviron ==
    [REQUEST_METHOD |-> "", SCRIPT_NAME |-> << >>, PATH_INFO |-> << >>,
     routing_args |-> NoGroups, HTTP_IF_NONE_MATCH |-> None,
     HTTP_IF_MODIFIED_SINCE |-> None, CONTENT_TYPE |-> None, HTTP_ACCEPT |-> None]

Init ==
    /\ \E cfg \in Configs : mappers = cfg.mappers /\ resources = cfg.resources
    /\ environ = NoEnviron
    /\ context = << >>
    /\ ctx = NewContext
    /\ pc = PC("idle", "M1", 0)
    /\ stack = << >>
    /\ ret = NoRet
    /\ handler = [meta |-> NoHandler, vary |-> {}]
    /\ response = Response(0, << >>, "")
    /\ wsgi = NoWsgi
    /\ events = << >>
    /\ tpl = Idle
    /\ cond = Idle

Next ==
    \/ WsgiBegin
    \/ MapperCall
    \/ WrapperEnter
    \/ Dispatch
    \/ RouteCall
    \/ CallableCall
    \/ ResourceEnter
    \/ HandlerCall
    \/ ResourceLeave
    \/ WrapperExit
    \/ DispatchReturn
    \/ WsgiReturn
    \/ WsgiFinish
    \/ ServerClose

Spec == Init /\ [][Next]_vars

(***************************************************************************)
(* Properties of the request pipeline.                                      *)
(***************************************************************************)
Done == pc.op \in {"returned", "closed", "raised"}

Matches(m, i, path) == re_match(mappers[m].routes[i].regex, path).ok

\* C1: Mapper.dispatch invokes the target of exactly one route, the first route in
\* insertion order whose matcher matches the path; no target of a later route is
\* invoked, and if no route matches NotFound is raised.
C1_FirstMatchOnly ==
    \A j \in DOMAIN events :
        /\ events[j].e = "target" =>
              /\ \A i \in 1..(events[j].i - 1) :
                     ~Matches(events[j].m, i, events[j].was_path_info)
              /\ \A k \in DOMAIN events :
                     (events[k].e = "target" /\ events[k].m = events[j].m) => k = j
        /\ (/\ events[j].e = "dispatch"
            /\ \A i \in DOMAIN mappers[events[j].m].routes :
                   ~Matches(events[j].m, i, events[j].path_info)) =>
              /\ \A k \in DOMAIN events :
                     ~(events[k].e = "target" /\ events[k].m = events[j].m)
              /\ Done => \E k \in DOMAIN events :
                             events[k].e = "NotFound" /\ events[k].m = events[j].m

EndsWithBar(template) == Len(template) > 0 /\ template[Len(template)] = "|"

\* C2: the target of a matching route whose template ends in '|' observes
\* path-info = the suffix S past the consumed prefix C and script-name = the
\* previous script-name + C; an anchored route leaves both unchanged.
C2_PrefixRoute ==
    \A j \in DOMAIN events :
        events[j].e = "target" =>
            LET ev == events[j]
                route == mappers[ev.m].routes[ev.i]
                P == ev.was_path_info
                n == re_match(route.regex, P).end
                C == SubSeq(P, 1, n)
                S == SubSeq(P, n + 1, Len(P))
            IN  IF EndsWithBar(route.template)
                THEN /\ P = C \o S
                     /\ ev.path_info = S
                     /\ ev.script_name = ev.was_script_name \o C
                ELSE /\ ev.path_info = P
                     /\ ev.script_name = ev.was_script_name

C2_Witness ==
    \E j \in DOMAIN events :
        /\ events[j].e = "target"
        /\ EndsWithBar(mappers[events[j].m].routes[events[j].i].template)
        /\ events[j].path_info = <<"/", "b">>
        /\ events[j].script_name = <<"/", "m">>
        /\ events[j].was_path_info = <<"/", "m", "/", "b">>
        /\ pc.op = "closed"

Tag(ev) == IF ev.e = "callbacks" THEN ev.phase ELSE ev.e

LifeTags == {"enter", "handler", "leave", "conditional_to", "finalize", "start_response",
             "teardown", "close"}

\* the lifecycle events so far, in order
Life == LET tags == [i \in DOMAIN events |-> Tag(events[i])]
        IN  SelectSeq(tags, LAMBDA t : t \in LifeTags)

LifeOrder == <<"enter", "handler", "leave", "conditional_to", "finalize", "start_response",
               "teardown", "close">>

HandlerReturned ==
    \E j \in DOMAIN events : events[j].e = "handler" /\ events[j].rv \in {"resp", "value"}

\* C3: for every request whose handler returns normally these happen once each, in
\* order: enter callbacks, the handler, leave callbacks, conditional reduction,
\* finalize callbacks, the WSGI write, teardown callbacks; close callbacks run only
\* later, when the server closes the iterator, never before teardown.
C3_LifecycleOrder ==
    HandlerReturned =>
        /\ \E n \in 0..Len(LifeOrder) : Life = SubSeq(LifeOrder, 1, n)
        /\ Done => Len(Life) >= 7
        /\ pc.op = "closed" => Life = LifeOrder

\* C15: at the WSGI boundary of the mapper an HTTP exception is replaced by
\* its own response and any other exception by a 500 response; no exception
\* leaves Mapper.wsgi, and start_response is called exactly once.
C15_NoExceptionEscapes ==
    /\ (pc.op = "finish" /\ ret.k = "exc") =>
          IF ret.type = "HTTPException" THEN response = ret.resp
          ELSE response = InternalServerError
    /\ pc.op # "raised"
    /\ Done => wsgi.started = 1

EntersOf(m) == SelectSeq(events, LAMBDA ev : ev.e = "wrapper_enter" /\ ev.m = m)
ExitsOf(m) == SelectSeq(events, LAMBDA ev : ev.e = "wrapper_exit" /\ ev.m = m)
Forwards(m, w) == \E i \in DOMAIN mappers[m].wrappers :
                      mappers[m].wrappers[i].id = w /\ mappers[m].wrappers[i].kind # "short"

\* C4: with wrappers w1..wn added in that order, a request passed to the mapper
\* enters wn first and w1 last before it reaches dispatch, and the response
\* returns through the wrappers in the reverse order.
C4_WrapperOrder ==
    \A m \in DOMAIN mappers :
        LET n == Len(mappers[m].wrappers)
            ins == EntersOf(m)
            outs == ExitsOf(m)
            fw == SelectSeq(ins, LAMBDA ev : Forwards(m, ev.w))
        IN  /\ \A j \in DOMAIN ins : ins[j].w = n + 1 - j
            /\ \A k \in DOMAIN events :
                   (events[k].e = "dispatch" /\ events[k].m = m) =>
                       /\ Len(EntersOf(m)) = n
                       /\ \A j \in DOMAIN events :
                              (events[j].e = "wrapper_enter" /\ events[j].m = m) => j < k
                       /\ \A j \in DOMAIN events :
                              (events[j].e = "wrapper_exit" /\ events[j].m = m) => j > k
            /\ \A j \in DOMAIN outs :
                   j <= Len(fw) /\ outs[j].w = fw[Len(fw) + 1 - j].w
            /\ Done => \A j \in DOMAIN ins :
                           Forwards(m, ins[j].w) => \E k \in DOMAIN outs : outs[k].w = ins[j].w

C4_Witness ==
    /\ pc.op = "closed"
    /\ Len(mappers["M1"].wrappers) = 2
    /\ Len(EntersOf("M1")) = 2
    /\ [j \in 1..2 |-> EntersOf("M1")[j].w] = <<2, 1>>
    /\ \E k \in DOMAIN events : events[k].e = "dispatch" /\ events[k].m = "M1"
    /\ Len(ExitsOf("M1")) = 2
    /\ [j \in 1..2 |-> ExitsOf("M1")[j].w] = <<1, 2>>

\* the verbs that have handlers in the view a resolve_handler event selected
ViewKeys(ev) ==
    IF ViewOf(ev.name) \in DOMAIN resources[ev.target]
    THEN DOMAIN resources[ev.target][ViewOf(ev.name)]
    ELSE {}

HeadAsGet(ev) ==
    /\ ev.e = "resolve_handler"
    /\ environ.REQUEST_METHOD = "HEAD"
    /\ "GET" \in ViewKeys(ev) /\ "HEAD" \notin ViewKeys(ev)

\* C5: a HEAD request to a view with a GET handler and no HEAD handler goes to the
\* GET handler, negotiated as for a GET, and the response emitted at the WSGI
\* layer has an empty body.
C5_HeadUsesGet ==
    \A j \in DOMAIN events :
        HeadAsGet(events[j]) =>
            LET as_get == resolve_handler(events[j].name, "GET", environ.CONTENT_TYPE,
                              environ.HTTP_ACCEPT, resources[events[j].target])
            IN  /\ events[j].err = as_get.err
                /\ events[j].handler = as_get.handler
                /\ events[j].err = "ok" => events[j].handler.verb = "GET"
                /\ \A k \in DOMAIN events :
                       events[k].e = "handler" =>
                           events[k].verb = "GET" /\ events[k].fn = as_get.handler.fn
                /\ wsgi.started > 0 => wsgi.body = ""

C5_Witness ==
    /\ pc.op = "closed"
    /\ \E j \in DOMAIN events : HeadAsGet(events[j])
    /\ \E k \in DOMAIN events : events[k].e = "handler" /\ events[k].fn = "get"
    /\ response.status = 200 /\ response.body = "str"
    /\ wsgi.started = 1 /\ wsgi.body = ""

NoHandlerForVerb(ev) ==
    /\ ev.e = "resolve_handler"
    /\ ViewOf(ev.name) \in DOMAIN resources[ev.target]
    /\ environ.REQUEST_METHOD \notin ViewKeys(ev)
    /\ ~(environ.REQUEST_METHOD = "HEAD" /\ "GET" \in ViewKeys(ev))

\* the Allow header lists, sorted, the verbs of keys, HEAD if GET is there, OPTIONS
AllowLists(headers, keys) ==
    LET allow == GetHeader(headers, "Allow")
    IN  /\ allow # None
        /\ SeqToSet(allow[1]) = keys \cup (IF "GET" \in keys THEN {"HEAD"} ELSE {})
                                     \cup {"OPTIONS"}
        /\ \A a, b \in DOMAIN allow[1] : a < b => StrRank(allow[1][a]) < StrRank(allow[1][b])

\* C6: when the verb has no handler in the selected view (and is not HEAD with a
\* GET handler), the outcome carries an Allow header listing, sorted, the view's
\* verbs plus HEAD if GET is present plus OPTIONS; it is a 200 response for
\* OPTIONS and a 405 error otherwise; no handler, enter or leave callback runs.
C6_AllowHeader ==
    \A j \in DOMAIN events :
        NoHandlerForVerb(events[j]) =>
            /\ j = Len(events) =>
                  /\ AllowLists(ret.resp.headers, ViewKeys(events[j]))
                  /\ IF environ.REQUEST_METHOD = "OPTIONS"
                     THEN ret.k = "resp" /\ ret.resp.status = 200
                     ELSE ret.k = "exc" /\ ret.type = "HTTPException" /\ ret.resp.status = 405
            /\ wsgi.started > 0 =>
                  /\ AllowLists(wsgi.headers, ViewKeys(events[j]))
                  /\ wsgi.status = IF environ.REQUEST_METHOD = "OPTIONS" THEN 200 ELSE 405
            /\ \A k \in DOMAIN events : Tag(events[k]) \notin {"handler", "enter", "leave"}

C6_Witness ==
    /\ pc.op = "closed"
    /\ \E j \in DOMAIN events :
           NoHandlerForVerb(events[j]) /\ ViewKeys(events[j]) = {"GET", "PUT"}
    /\ environ.REQUEST_METHOD = "POST"
    /\ wsgi.status = 405
    /\ GetHeader(wsgi.headers, "Allow") = Some(<<"GET", "HEAD", "OPTIONS", "PUT">>)

(***************************************************************************)
(* The conditional engine on its own: Response.conditional_to applied to a  *)
(* response and the two conditional headers of a request.                   *)
(***************************************************************************)
ETagValues == {None, Some(<< >>), Some(<<"\"x\"">>), Some(<<"W/\"x\"">>), Some(<<"x">>)}
LastModifiedValues == {None, Some(<<"d1">>), Some(<<"d3">>), Some(<<"junk">>)}

OtherHeaderLists ==
    {<< >>,
     <<<<"Content-Type", <<"text/html">>>>, <<"Content-Length", <<"3">>>>,
       <<"Set-Cookie", <<"k=v">>>>, <<"X-Custom", <<"c">>>>>>,
     <<<<"Date", <<"d3">>>>, <<"Vary", <<"Accept">>>>, <<"Cache-Control", <<"public">>>>,
       <<"Expires", <<"d3">>>>, <<"Content-Location", <<"/l">>>>, <<"Allow", <<"GET">>>>,
       <<"content-encoding", <<"gzip">>>>>>}

Header(name, value) == IF value = None THEN << >> ELSE <<<<name, value[1]>>>>

CondResponses ==
    {Response(status, Header("ETag", etag) \o others \o Header("Last-Modified", lm), "str") :
        status \in {200, 404}, etag \in ETagValues, lm \in LastModifiedValues,
        others \in OtherHeaderLists}

CondIfNoneMatch ==
    {None, Some(<< >>), Some(<<"*">>), Some(<<"\"x\"">>), Some(<<"W/\"x\"">>),
     Some(<<"\"y\"">>), Some(<<"\"y\"", "\"x\"">>), Some(<<"junk">>)}

CondIfModifiedSince == {None, Some(<< >>), Some(<<"d2">>), Some(<<"junk">>)}

PipelineOff ==
    /\ mappers = NoGroups
    /\ resources = NoGroups
    /\ environ = NoEnviron
    /\ context = << >>
    /\ ctx = NewContext
    /\ pc = PC("off", "", 0)
    /\ stack = << >>
    /\ ret = NoRet
    /\ handler = [meta |-> NoHandler, vary |-> {}]
    /\ response = Response(0, << >>, "")
    /\ wsgi = NoWsgi
    /\ events = << >>

InitCond ==
    /\ PipelineOff
    /\ tpl = Idle
    /\ \E self \in CondResponses, inm \in CondIfNoneMatch, ims \in CondIfModifiedSince :
          cond = [stage |-> "request", self |-> self, if_none_match |-> inm,
                  if_modified_since |-> ims,
                  out |-> [err |-> "ok", resp |-> self]]

\* response.conditional_to(request)
ConditionalTo ==
    /\ cond.stage = "request"
    /\ cond' = [cond EXCEPT !.stage = "done",
                   !.out = conditional_to(cond.self, cond.if_none_match,
                                          cond.if_modified_since)]
    /\ UNCHANGED <<pipeline, tpl>>

NextCond == ConditionalTo

SpecCond == InitCond /\ [][NextCond]_vars

(***************************************************************************)
(* Properties of the conditional engine.                                    *)
(***************************************************************************)
\* a conditional header counts as sent when its value is not empty
Sent(h) == h # None /\ h[1] # << >>

ETagOf(self) == GetHeader(self.headers, "ETag")

\* If-None-Match weakly matches the ETag of the response
WeakMatch(self, inm) ==
    /\ Sent(inm) /\ Sent(ETagOf(self))
    /\ etag_match(ETagOf(self)[1][1]).ok
    /\ \/ inm[1] = <<"*">>
       \/ /\ \A i \in DOMAIN inm[1] : etag_match(inm[1][i]).ok
          /\ \E i \in DOMAIN inm[1] :
                 etag_match(inm[1][i]).tag = etag_match(ETagOf(self)[1][1]).tag

\* the If-Modified-Since timestamp is >= the Last-Modified timestamp
NotModifiedSince(self, ims) ==
    LET lm == GetHeader(self.headers, "Last-Modified")
    IN  /\ Sent(ims) /\ Sent(lm)
        /\ httpdate_to_timestamp(lm[1]).ok /\ httpdate_to_timestamp(ims[1]).ok
        /\ httpdate_to_timestamp(ims[1]).ts >= httpdate_to_timestamp(lm[1]).ts

Reduces(self, inm, ims) ==
    /\ self.status = 200
    /\ WeakMatch(self, inm) \/ NotModifiedSince(self, ims)
    /\ Sent(inm) => WeakMatch(self, inm)
    /\ Sent(ims) => NotModifiedSince(self, ims)

\* the ETag of a 200 response is not a well-formed entity tag, and is looked at
BadETag(self, inm) ==
    /\ self.status = 200 /\ Sent(inm) /\ Sent(ETagOf(self))
    /\ ~etag_match(ETagOf(self)[1][1]).ok

Reduced == cond.stage = "done" /\ cond.out.err = "ok" /\ cond.out.resp.status = 304

HeaderNames(headers) == {Lower(headers[i][1]) : i \in DOMAIN headers}

\* C8 as stated: the 304 response has an empty body and carries only the headers
\* of the original response named Date, ETag, Content-Location, Expires,
\* Cache-Control or Vary, with Date added if it was missing; every other header
\* of the original response is absent.
C8_OnlyPermittedHeaders ==
    Reduced =>
        /\ cond.out.resp.body = ""
        /\ HeaderNames(cond.out.resp.headers) =
              (HeaderNames(cond.self.headers)
                  \cap {"date", "etag", "content-location", "expires", "cache-control", "vary"})
              \cup {"date"}

\* the entity headers that a 304 response does not carry
Removed304 ==
    {"allow", "content-encoding", "content-language", "content-length", "content-md5",
     "content-range", "content-type", "last-modified"}

\* C8, amended: the 304 response has an empty body and carries, in their order,
\* all headers of the original response except Allow, Content-Encoding,
\* Content-Language, Content-Length, Content-MD5, Content-Range, Content-Type and
\* Last-Modified, with Date added if it was missing; Set-Cookie and custom
\* headers are kept.
C8_EntityHeadersRemoved ==
    Reduced =>
        LET kept == SelectSeq(cond.self.headers, LAMBDA h : Lower(h[1]) \notin Removed304)
            out == cond.out.resp.headers
        IN  /\ cond.out.resp.body = ""
            /\ IF "date" \in HeaderNames(cond.self.headers)
               THEN out = kept
               ELSE /\ Len(out) = Len(kept) + 1
                    /\ SubSeq(out, 1, Len(kept)) = kept
                    /\ out[Len(out)][1] = "Date"

C8_Witness ==
    /\ Reduced
    /\ HeaderNames(cond.self.headers) =
          {"etag", "content-type", "content-length", "set-cookie", "x-custom", "last-modified"}
    /\ HeaderNames(cond.out.resp.headers) = {"etag", "set-cookie", "x-custom", "date"}

(***************************************************************************)
(* The template engine on its own: a route is made from a template, a path  *)
(* is built for a parameter assignment, and the path is matched.            *)
(***************************************************************************)
MaxTemplateLen == 4

TemplateTokens ==
    {<<"/">>, <<"x">>, <<"{", "a", "}">>, <<"{", "b", ":", "d", "i", "g", "i", "t", "s", "}">>,
     <<"[">>, <<"]">>, <<"|">>}

RECURSIVE Flatten(_)
Flatten(ss) == IF ss = << >> THEN << >> ELSE ss[1] \o Flatten(Tail(ss))

Templates == {Flatten(ts) : ts \in SeqsUpTo(TemplateTokens, MaxTemplateLen)}

N_a == <<"a">>
N_b == <<"b">>

\* the keyword arguments a and b; None for an argument that is not given
Params(a, b) ==
    (IF a = None THEN NoGroups ELSE (N_a :> a[1]))
        @@ (IF b = None THEN NoGroups ELSE (N_b :> b[1]))

ValuesA ==
    {None, Some(StrVal(<<"x">>)), Some(StrVal(<<"y">>)), Some(StrVal(<<"y", " ">>)),
     Some(IntVal(7))}
ValuesB == {None, Some(StrVal(<<"7">>)), Some(StrVal(<<"7", "7">>)), Some(StrVal(<<"y">>))}

NoRoute == [err |-> "", route |-> << >>]
NoPath == [err |-> "", path |-> << >>]

TplInput(template, params, path) ==
    [stage |-> "template", template |-> template, params |-> params, path |-> path,
     route |-> NoRoute, built |-> NoPath, matched |-> ReFail, accepted |-> FALSE,
     buildable |-> FALSE]

InitRoundTrip ==
    /\ PipelineOff
    /\ cond = Idle
    /\ \E template \in Templates, a \in ValuesA, b \in ValuesB :
          tpl = TplInput(template, Params(a, b), << >>)

\* Route(template, resource): Route.__init__
RouteNew ==
    /\ tpl.stage = "template"
    /\ LET r == RouteInit(tpl.template, "A", DEFAULT_RANGES, None)
       IN  tpl' = [tpl EXCEPT !.route = r,
                              !.stage = IF r.err = "ok" THEN "route" ELSE "rejected"]
    /\ UNCHANGED <<pipeline, cond>>

\* route.build_url(**params): template2path(template, params, ranges)
BuildPath ==
    /\ tpl.stage = "route"
    /\ LET r == template2path(tpl.template, tpl.params, DEFAULT_RANGES)
       IN  tpl' = [tpl EXCEPT !.built = r,
                              !.stage = IF r.err = "ok" THEN "built" ELSE "not built"]
    /\ UNCHANGED <<pipeline, cond>>

\* Route.__call__: route.regex.match(path) for the path that was built
MatchPath ==
    /\ tpl.stage = "built"
    /\ tpl' = [tpl EXCEPT !.matched = re_match(tpl.route.route.regex, tpl.built.path),
                          !.stage = "matched"]
    /\ UNCHANGED <<pipeline, cond>>

NextRoundTrip == RouteNew \/ BuildPath \/ MatchPath

SpecRoundTrip == InitRoundTrip /\ [][NextRoundTrip]_vars

(***************************************************************************)
(* Properties of the round trip.                                            *)
(***************************************************************************)
TplRegex == tpl.route.route.regex
TplKeys == SeqToSet(tpl.route.route.template_params)

\* p restricted to the keys the template refers to
Restricted == [n \in TplKeys \cap DOMAIN tpl.params |-> tpl.params[n]]

\* a parameter value equals a matched group: a string with the same characters
Same(value, text) == value.t = "str" /\ value.s = text

GroupsEqualParams ==
    /\ DOMAIN tpl.matched.groups = DOMAIN Restricted
    /\ \A n \in DOMAIN Restricted : Same(Restricted[n], tpl.matched.groups[n])

\* C9 (as stated): the path built for p is matched by the template's regex and
\* the named groups of the match equal p restricted to the template's keys.
C9_RoundTrip ==
    tpl.stage = "matched" => (tpl.matched.ok /\ GroupsEqualParams)

HasOptionalGroup == \E i \in 1..Len(TplRegex) : TplRegex[i].k = "open"

\* any two parameters have non-empty literal text between them
ParamsSeparated ==
    \A i, j \in 1..Len(TplRegex) :
        (i < j /\ TplRegex[i].k = "param" /\ TplRegex[j].k = "param")
            => \E m \in (i + 1)..(j - 1) : TplRegex[m].k = "lit" /\ TplRegex[m].s # << >>

LiteralChars ==
    UNION {SeqToSet(TplRegex[i].s) : i \in {m \in 1..Len(TplRegex) : TplRegex[m].k = "lit"}}

\* every value used is a string that escaping leaves alone and that has no
\* character of the template's literal text
PlainValues ==
    \A n \in DOMAIN Restricted :
        /\ Restricted[n].t = "str"
        /\ quote(Restricted[n].s) = Restricted[n].s
        /\ SeqToSet(Restricted[n].s) \cap LiteralChars = {}

Unambiguous == ~HasOptionalGroup /\ ParamsSeparated /\ PlainValues

\* C9 (amended): the path built for p is always matched, and only the template's
\* keys are captured; the groups equal p restricted to the template's keys when
\* the template has no optional group, its parameters are separated by literal
\* text, and the values are strings that escaping leaves unchanged and that
\* contain no character of the literal text.
C9_RoundTripUnambiguous ==
    tpl.stage = "matched" =>
        /\ tpl.matched.ok
        /\ DOMAIN tpl.matched.groups \subseteq TplKeys
        /\ Unambiguous => GroupsEqualParams

\* a template with two parameters and literal text between them went round
C9_Witness ==
    /\ tpl.stage = "matched"
    /\ Unambiguous
    /\ DOMAIN tpl.matched.groups = {N_a, N_b}
    /\ tpl.matched.groups[N_b] = <<"7", "7">>
    /\ GroupsEqualParams

(***************************************************************************)
(* Acceptance against building: a candidate path is matched by the route   *)
(* of a template, and a parameter assignment that builds it is looked for. *)
(* A candidate has no '%', so a value that appears in it is its own escaped *)
(* form, and a value that is not a string builds what its string form       *)
(* builds: the assignments drawn from the candidate's substrings are all    *)
(* the assignments that can build it.                                       *)
(***************************************************************************)
MaxAcceptLen == 3
MaxPathLen == 2

PathChars == {"/", "x", "7", " "}

AcceptTemplates == {Flatten(ts) : ts \in SeqsUpTo(TemplateTokens, MaxAcceptLen)}
CandidatePaths == SeqsUpTo(PathChars, MaxPathLen)

Substrings(q) == {SubSeq(q, i, j) : i \in 1..Len(q), j \in 1..Len(q)}
\* the values a parameter can have in an assignment that builds q; a
\* parameter the template does not refer to is ignored by template2path
CandidateValues(name, keys, q) ==
    IF name \in keys THEN {None} \cup {Some(StrVal(s)) : s \in Substrings(q)} ELSE {None}

\* some assignment makes template2path return q
CanBuild(template, keys, q) ==
    \E a \in CandidateValues(N_a, keys, q), b \in CandidateValues(N_b, keys, q) :
        LET r == template2path(template, Params(a, b), DEFAULT_RANGES)
        IN  r.err = "ok" /\ r.path = q

InitAccept ==
    /\ PipelineOff
    /\ cond = Idle
    /\ \E template \in AcceptTemplates, q \in CandidatePaths :
          tpl = TplInput(template, NoGroups, q)

\* Route.__call__: route.regex.match(path) for the candidate path
MatchCandidate ==
    /\ tpl.stage = "route"
    /\ LET m == re_match(tpl.route.route.regex, tpl.path)
       IN  tpl' = [tpl EXCEPT !.matched = m, !.accepted = m.ok, !.stage = "accepted"]
    /\ UNCHANGED <<pipeline, cond>>

\* template2path(template, p) over the assignments p that could give the path
BuildCandidate ==
    /\ tpl.stage = "accepted"
    /\ tpl' = [tpl EXCEPT !.buildable = CanBuild(tpl.template, TplKeys, tpl.path),
                          !.stage = "searched"]
    /\ UNCHANGED <<pipeline, cond>>

NextAccept == RouteNew \/ MatchCandidate \/ BuildCandidate

SpecAccept == InitAccept /\ [][NextAccept]_vars

\* C10 (as stated): a path is accepted by a template's matcher exactly when
\* template2path can produce it for some parameter assignment.
C10_AcceptedIffBuildable ==
    tpl.stage = "searched" => (tpl.accepted <=> tpl.buildable)

\* C10 (amended): every path template2path can produce is accepted by the
\* template's matcher; the matcher accepts more than can be built.
C10_BuildableIsAccepted ==
    tpl.stage = "searched" => (tpl.buildable => tpl.accepted)

\* a candidate with a parameter value in it was built and accepted
C10_Witness ==
    /\ tpl.stage = "searched"
    /\ tpl.buildable
    /\ tpl.accepted
    /\ DOMAIN tpl.matched.groups # {}
    /\ Len(tpl.path) = MaxPathLen

(***************************************************************************)
(* A resource on its own: Resource.__call__ for a request that a route      *)
(* "/a" of a mapper has just handed to it.  The resource is built with the  *)
(* instance decorators, in the order of the list, from handlers that differ *)
(* in the media range they accept and the media type they provide.          *)
(***************************************************************************)
MaxHandlers == 3

FnName(i) == CASE i = 1 -> "f1" [] i = 2 -> "f2" [] i = 3 -> "f3" [] i = 4 -> "f4"
               [] OTHER -> "f5"

\* the (accepts, provides) arguments of a handler decorator
DecoratorArgs ==
    {[accepts |-> None, provides |-> None],
     [accepts |-> None, provides |-> Some("text/html")],
     [accepts |-> None, provides |-> Some("application/json")],
     [accepts |-> Some("text/*"), provides |-> Some("text/html")],
     [accepts |-> Some("application/json"), provides |-> Some("application/json")],
     [accepts |-> Some("text/*"), provides |-> None]}

\* resource.get(accepts=..., provides=...)(fn), once for each item of args
Decorated(args) ==
    [i \in 1..Len(args) |->
        handler_metadata(FnName(i), "GET", None, args[i].accepts, args[i].provides)]

ContentTypes == {None, Some("text/plain"), Some("application/json")}
AcceptHeaders ==
    {None, Some(<<"text/html">>), Some(<<"*/*">>), Some(<<"text/plain">>),
     Some(<<"application/json", "text/html;q=0.5">>)}

InitNegotiate ==
    /\ \E args \in SeqsUpTo(DecoratorArgs, MaxHandlers) :
          resources = ("A" :> ResourceInit(Decorated(args)))
    /\ mappers = ("M1" :> BuildMapper(<<AddCall(<<"/", "a">>, "A", None)>>, << >>))
    /\ \E ct \in ContentTypes, accept \in AcceptHeaders :
          environ = [NoEnviron EXCEPT !.REQUEST_METHOD = "GET", !.PATH_INFO = <<"/", "a">>,
                                      !.CONTENT_TYPE = ct, !.HTTP_ACCEPT = accept]
    /\ context = <<[root |-> << >>, mapper |-> "M1", route |-> Some(1)]>>
    /\ ctx = NewContext
    /\ pc = PC("resource", "A", 0)
    /\ stack = << >>
    /\ ret = NoRet
    /\ handler = [meta |-> NoHandler, vary |-> {}]
    /\ response = Response(0, << >>, "")
    /\ wsgi = NoWsgi
    /\ events = << >>
    /\ tpl = Idle
    /\ cond = Idle

NextNegotiate == ResourceEnter \/ HandlerCall \/ ResourceLeave

SpecNegotiate == InitNegotiate /\ [][NextNegotiate]_vars

(***************************************************************************)
(* Properties of content negotiation.                                       *)
(***************************************************************************)
\* the handlers of the view and verb of the request
Candidates ==
    IF None \in DOMAIN resources["A"] /\ "GET" \in DOMAIN resources["A"][None]
    THEN resources["A"][None]["GET"] ELSE << >>

Resolved == Len(events) > 0 /\ events[1].e = "resolve_handler"
HandlerEvents == {k \in DOMAIN events : events[k].e = "handler"}

\* (fitness, quality) pairs in their order
ScoreBelow(a, b) == a[1] < b[1] \/ (a[1] = b[1] /\ a[2] < b[2])

\* the candidates left when the request's Content-Type has been dealt with
ContentTypeSent == environ.CONTENT_TYPE # None
ContentScore(h) ==
    fitness_and_quality_parsed(environ.CONTENT_TYPE[1], <<parse_media_range(h.accepts)>>)
BestContentScore ==
    LET S == {ContentScore(Candidates[i]) : i \in 1..Len(Candidates)}
    IN  CHOOSE b \in S : \A c \in S : ~ScoreBelow(b, c)
Remaining ==
    IF ContentTypeSent
    THEN SelectSeq(Candidates, LAMBDA h : ContentScore(h) = BestContentScore)
    ELSE Candidates

AcceptSent == environ.HTTP_ACCEPT # None
AllProvide == \A i \in 1..Len(Candidates) : Candidates[i].provides # None
AcceptScore(h) ==
    fitness_and_quality_parsed(h.provides[1],
        [i \in 1..Len(environ.HTTP_ACCEPT[1]) |-> parse_media_range(environ.HTTP_ACCEPT[1][i])])

\* the earliest of the remaining candidates that no other one beats
Preferred ==
    CHOOSE i \in 1..Len(Remaining) :
        /\ \A j \in 1..Len(Remaining) : ~ScoreBelow(AcceptScore(Remaining[i]), AcceptScore(Remaining[j]))
        /\ \A j \in 1..(i - 1) : ScoreBelow(AcceptScore(Remaining[j]), AcceptScore(Remaining[i]))

\* C11: with an Accept header and candidates that all declare provides, the
\* handler selected and invoked is the earliest-added candidate with the best
\* match; if nothing is acceptable NotAcceptable is raised and no handler runs.
C11_EarliestBestMatch ==
    (Resolved /\ AcceptSent /\ AllProvide /\ Remaining # << >>
        /\ (ContentTypeSent => BestContentScore[2] # 0)) =>
        IF AcceptScore(Remaining[Preferred])[2] = 0
        THEN events[1].err = "NotAcceptable" /\ HandlerEvents = {}
        ELSE /\ events[1].err = "ok"
             /\ events[1].handler = Remaining[Preferred]
             /\ \A k \in HandlerEvents : events[k].fn = Remaining[Preferred].fn

\* the items of the Vary header of the response that leaves the resource
VaryItems ==
    LET v == GetHeader(ret.resp.headers, "Vary") IN IF v = None THEN << >> ELSE v[1]
Answered == pc.op = "return" /\ ret.k = "resp" /\ HandlerEvents # {}
DistinctProvides == {Candidates[i].provides : i \in 1..Len(Candidates)} \ {None}
DistinctAccepts == {Candidates[i].accepts : i \in 1..Len(Candidates)}

\* C12: the response of a handler varies on Accept if the candidates have more
\* than one provides value and on Content-Type if they have more than one
\* accepts value, whatever the request sent; the merged Vary header has no
\* two items that are equal when case is ignored, and is in alphabetical order.
C12_VaryMerged ==
    Answered =>
        /\ Cardinality(DistinctProvides) > 1 =>
              \E i \in 1..Len(VaryItems) : Lower(VaryItems[i]) = "accept"
        /\ Cardinality(DistinctAccepts) > 1 =>
              \E i \in 1..Len(VaryItems) : Lower(VaryItems[i]) = "content-type"
        /\ handler.vary # {} =>
              \A i, j \in 1..Len(VaryItems) :
                  i < j => /\ Lower(VaryItems[i]) # Lower(VaryItems[j])
                           /\ StrRank(VaryItems[i]) <= StrRank(VaryItems[j])

\* the first candidate is not among those the Content-Type leaves
FirstCandidateDropped == ContentScore(Candidates[1]) # BestContentScore

MaxContextOps == 5

FactoryNames == {"db", "user"}
AttributeNames == FactoryNames \cup {"missing"}

InitContext ==
    /\ mappers = NoGroups
    /\ resources = NoGroups
    /\ environ = NoEnviron
    /\ context = << >>
    /\ ctx = NewContext
    /\ pc = PC("context", "", 0)
    /\ stack = << >>
    /\ ret = NoRet
    /\ handler = [meta |-> NoHandler, vary |-> {}]
    /\ response = Response(0, << >>, "")
    /\ wsgi = NoWsgi
    /\ events = << >>
    /\ tpl = Idle
    /\ cond = Idle

Invocations == {k \in DOMAIN events : events[k].e = "getattr" /\ events[k].invoked}

AddProperty ==
    /\ pc.op = "context"
    /\ Len(events) < MaxContextOps
    /\ \E name \in FactoryNames, cached \in BOOLEAN :
          LET r == Context_add_property(ctx, name, cached)
          IN  /\ ctx' = r.ctx
              /\ Log([e |-> "add_property", name |-> name, cached |-> cached, err |-> r.err,
                      value |-> 0, invoked |-> FALSE])
    /\ UNCHANGED <<mappers, resources, environ, context, pc, stack, ret, handler, response,
                   wsgi, tpl, cond>>

GetAttr ==
    /\ pc.op = "context"
    /\ Len(events) < MaxContextOps
    /\ \E name \in AttributeNames :
          LET r == Context_getattr(ctx, name, Cardinality(Invocations) + 1)
          IN  /\ ctx' = r.ctx
              /\ Log([e |-> "getattr", name |-> name, cached |-> FALSE, err |-> r.err,
                      value |-> r.value, invoked |-> r.invoked])
    /\ UNCHANGED <<mappers, resources, environ, context, pc, stack, ret, handler, response,
                   wsgi, tpl, cond>>

NextContext == AddProperty \/ GetAttr

SpecContext == InitContext /\ [][NextContext]_vars

\* the accesses to name, and the registration that was in force at access k
Accesses(name) == {k \in DOMAIN events : events[k].e = "getattr" /\ events[k].name = name}
Registration(name, k) ==
    {j \in 1..(k - 1) : events[j].e = "add_property" /\ events[j].name = name
                          /\ events[j].err = ""}

\* C14: within one request the factory of a cached property is invoked at most
\* once and every access returns that one value, the factory of a property
\* that is not cached is invoked once by each access, and the access to a name
\* that is not registered raises AttributeError.
C14_PropertyCaching ==
    \A name \in AttributeNames :
        /\ \A k \in Accesses(name) :
              IF Registration(name, k) = {}
              THEN events[k].err = "AttributeError" /\ ~events[k].invoked
              ELSE /\ events[k].err = ""
                   /\ ~ctx.properties[name].cached => events[k].invoked
                   /\ ctx.properties[name].cached =>
                         \A k2 \in Accesses(name) :
                             Registration(name, k2) # {} => events[k2].value = events[k].value
        /\ (name \in DOMAIN ctx.properties /\ ctx.properties[name].cached) =>
              Cardinality(Accesses(name) \cap Invocations) <= 1

C14_Witness ==
    \E c, u \in FactoryNames :
        /\ c \in DOMAIN ctx.properties /\ ctx.properties[c].cached
        /\ u \in DOMAIN ctx.properties /\ ~ctx.properties[u].cached
        /\ Cardinality({k \in Accesses(c) : events[k].err = ""}) >= 2
        /\ Cardinality(Accesses(u) \cap Invocations) >= 1

(***************************************************************************)
(* URL building: Route.path, Mapper.path and build_url.  The positional     *)
(* arguments are a list of values, the keyword arguments a function from    *)
(* names to values.  A target is a string, a Route object (a route index of *)
(* a mapper) or another object (a resource or callable id).                 *)
(***************************************************************************)
StrTarget(s) == [k |-> "str", s |-> s, m |-> "", i |-> 0, id |-> ""]
RouteTarget(m, i) == [k |-> "route", s |-> << >>, m |-> m, i |-> i, id |-> ""]
ObjTarget(id) == [k |-> "obj", s |-> << >>, m |-> "", i |-> 0, id |-> id]

RECURSIVE PopParams(_, _, _, _, _)
PopParams(names, i, params, args, kw) ==
    IF i > Len(names) THEN [params |-> params, args |-> args, kw |-> kw]
    ELSE LET name == names[i]
         IN  IF name \in DOMAIN kw
             THEN PopParams(names, i + 1, (name :> kw[name]) @@ params, args,
                            [k \in DOMAIN kw \ {name} |-> kw[k]])
             ELSE IF args # << >>
             THEN PopParams(names, i + 1, (name :> args[1]) @@ params, Tail(args), kw)
             ELSE PopParams(names, i + 1, params, args, kw)

RECURSIVE PopParamsPositionalFirst(_, _, _, _, _)
PopParamsPositionalFirst(names, i, params, args, kw) ==
    IF i > Len(names) THEN [params |-> params, args |-> args, kw |-> kw]
    ELSE LET name == names[i]
         IN  IF args # << >>
             THEN PopParamsPositionalFirst(names, i + 1, (name :> args[1]) @@ params,
                                           Tail(args), kw)
             ELSE IF name \in DOMAIN kw
             THEN PopParamsPositionalFirst(names, i + 1, (name :> kw[name]) @@ params, args,
                                           [k \in DOMAIN kw \ {name} |-> kw[k]])
             ELSE PopParamsPositionalFirst(names, i + 1, params, args, kw)

\* as Route_pop_params, but a parameter is taken from args before kw
Route_pop_params_positional_first(route, args, kw) ==
    PopParamsPositionalFirst(route.template_params, 1, NoGroups, args, kw)

\* Route._pop_params(args, kw): [params, args, kw], args and kw as they are left.
\* Route.params is _template_params: no target here has a build_url attribute
Route_pop_params(route, args, kw) == PopParams(route.template_params, 1, NoGroups, args, kw)

\* as Route_path, but what is left of args and kw is ignored
Route_path_ignoring_extras(route, ranges, args, kw) ==
    template2path(route.template, Route_pop_params(route, args, kw).params, ranges)

\* Route.path(args, kw): [err, path]; ranges are those the route was made with
Route_path(route, ranges, args, kw) ==
    LET p == Route_pop_params(route, args, kw)
    IN  IF p.args # << >> \/ DOMAIN p.kw # {}
        THEN [err |-> "InvalidArgumentError", path |-> << >>]
        ELSE template2path(route.template, p.params, ranges)

\* a + b for two [err, path] results computed in this order
PathPlus(a, b) ==
    IF a.err # "ok" THEN a
    ELSE IF b.err # "ok" THEN b
    ELSE [err |-> "ok", path |-> a.path \o b.path]

NoMorePath == [err |-> "ok", path |-> << >>]
PathError(e) == [err |-> e, path |-> << >>]

RECURSIVE Mapper_path(_, _, _, _, _)
\* Mapper.path(target, args, kw) of mapper m: [err, path].  Every branch of the
\* source looks a route up and calls its path(); the nested-name branch then
\* adds the path built by the route's resource from what _pop_params left
Mapper_path(ms, m, target, args, kw) ==
    LET self == ms[m]
        nested == target.k = "str" /\ Find(target.s, ":") > -1
        at == Find(target.s, ":")
        name == IF nested THEN SubSeq(target.s, 1, at) ELSE target.s
        rest == SubSeq(target.s, at + 2, Len(target.s))
        err == IF target.k = "str"
               THEN IF name \in DOMAIN self.named_routes THEN "ok" ELSE "KeyError"
               ELSE IF target.k = "route"
               THEN IF target.m = m THEN "ok" ELSE "InvalidArgumentError"
               ELSE IF target.id \in DOMAIN self.lookup THEN "ok"
               ELSE "InvalidArgumentError"
        route == IF target.k = "str" THEN self.named_routes[name]
                 ELSE IF target.k = "route" THEN self.routes[target.i]
                 ELSE self.lookup[target.id]
    IN  IF err # "ok" THEN PathError(err)
        ELSE PathPlus(Route_path(route, self.ranges,
                                 IF nested THEN << >> ELSE args,
                                 IF nested THEN Route_pop_params(route, args, kw).params
                                 ELSE kw),
                      IF ~nested THEN NoMorePath
                      ELSE IF TargetKind(route.resource) # "mapper"
                      THEN PathError("AttributeError")
                      ELSE Mapper_path(ms, route.resource, StrTarget(rest),
                                       Route_pop_params(route, args, kw).args,
                                       Route_pop_params(route, args, kw).kw))

RECURSIVE LeadingDots(_)
LeadingDots(s) == IF s # << >> /\ s[1] = "." THEN 1 + LeadingDots(Tail(s)) ELSE 0

\* c.root + c.mapper.path(target, args, kw)
RootPlusPath(ms, c, target, args, kw) ==
    PathPlus([err |-> "ok", path |-> c.root], Mapper_path(ms, c.mapper, target, args, kw))

\* the Route object or None in c.route, as a target
FrameRoute(c) == IF c.route = None THEN ObjTarget("None") ELSE RouteTarget(c.mapper, c.route[1])

\* target is a string that starts with '/' or contains '.'
IsRelativeOrAbsolute(target) ==
    target.k = "str" /\ target.s # << >> /\ (target.s[1] = "/" \/ Find(target.s, ".") > -1)

\* rel_name = target.lstrip('.')
RelName(target) == SubSeq(target.s, LeadingDots(target.s) + 1, Len(target.s))

\* len(leading_dots), leading_dots = target[:-len(rel_name)]: none when
\* rel_name is empty
LenLeadingDots(target) == IF RelName(target) = << >> THEN 0 ELSE LeadingDots(target.s)

\* as build_url, but '/' is answered from the last frame of the context
build_url_root_of_last_frame(ms, ctxt, target, args, kw) ==
    LET last == ctxt[Len(ctxt)]
        named == IsRelativeOrAbsolute(target) /\ target.s # <<".">> /\ target.s[1] # "/"
        c == IF ~IsRelativeOrAbsolute(target) \/ target.s = <<".">> THEN last
             ELSE IF target.s[1] = "/" \/ LenLeadingDots(target) = 0 THEN ctxt[1]
             ELSE ctxt[Len(ctxt) + 1 - LenLeadingDots(target)]
        t == IF ~IsRelativeOrAbsolute(target) THEN target
             ELSE IF target.s = <<".">> THEN FrameRoute(last)
             ELSE IF target.s[1] = "/" THEN StrTarget(Tail(target.s))
             ELSE StrTarget(RelName(target))
    IN  IF ctxt = << >> THEN PathError("RuntimeError")
        ELSE IF target.k = "str" /\ target.s = <<"/">>
        THEN [err |-> "ok", path |-> IF last.root = << >> THEN <<"/">> ELSE last.root]
        ELSE IF named /\ LenLeadingDots(target) > Len(ctxt) THEN PathError("IndexError")
        ELSE RootPlusPath(ms, c, t, args, kw)

\* build_url(context, target, args, kw): [err, path].  context[-n] is the n-th
\* frame from the end and context[-0] the first frame.  Every branch but '/'
\* picks a frame c and a target t and returns c.root + c.mapper.path(t, args, kw)
build_url(ms, ctxt, target, args, kw) ==
    LET last == ctxt[Len(ctxt)]
        named == IsRelativeOrAbsolute(target) /\ target.s # <<".">> /\ target.s[1] # "/"
        c == IF ~IsRelativeOrAbsolute(target) \/ target.s = <<".">> THEN last
             ELSE IF target.s[1] = "/" \/ LenLeadingDots(target) = 0 THEN ctxt[1]
             ELSE ctxt[Len(ctxt) + 1 - LenLeadingDots(target)]
        t == IF ~IsRelativeOrAbsolute(target) THEN target
             ELSE IF target.s = <<".">> THEN FrameRoute(last)
             ELSE IF target.s[1] = "/" THEN StrTarget(Tail(target.s))
             ELSE StrTarget(RelName(target))
    IN  IF ctxt = << >> THEN PathError("RuntimeError")
        ELSE IF target.k = "str" /\ target.s = <<"/">>
        THEN [err |-> "ok", path |-> IF ctxt[1].root = << >> THEN <<"/">> ELSE ctxt[1].root]
        ELSE IF named /\ LenLeadingDots(target) > Len(ctxt) THEN PathError("IndexError")
        ELSE RootPlusPath(ms, c, t, args, kw)

(***************************************************************************)
(* URL building during a request: three nested mappers, a request that has  *)
(* been dispatched to a target, and one call of Request.url_for's           *)
(* build_url, or of Route.path on a route of the current mapper.            *)
(***************************************************************************)
MaxArgs == 2

N_n == <<"n">>
N_a_b == <<"a", ".", "b">>
N_m == <<"m">>
N_user == <<"u", "s", "e", "r">>
N_pair == <<"p", "a", "i", "r">>
N_id == <<"i", "d">>
N_p == <<"p">>
N_edit == <<"e", "d", "i", "t">>

\* the templates /users/{id:digits}[/edit] and /{p}/{id:digits}
T_user == <<"/", "u", "s", "e", "r", "s", "/", "{", "i", "d", ":", "d", "i", "g", "i", "t", "s", "}",
            "[", "/", "e", "d", "i", "t", "]">>
T_pair == <<"/", "{", "p", "}", "/", "{", "i", "d", ":", "d", "i", "g", "i", "t", "s", "}">>

UrlMappers ==
    ("M1" :> BuildMapper(<<AddCall(<<"/", "h", "1">>, "A", Some(N_n)),
                           AddCall(<<"/", "d", "1">>, "B", Some(N_a_b)),
                           AddCall(<<"/", "x", "|">>, "M2", Some(N_m)),
                           AddCall(T_user, "F", Some(N_user)),
                           AddCall(T_pair, "G", Some(N_pair))>>, << >>))
    @@ ("M2" :> BuildMapper(<<AddCall(<<"/", "h", "2">>, "A", Some(N_n)),
                              AddCall(<<"/", "d", "2">>, "B", Some(N_a_b)),
                              AddCall(<<"/", "{", "p", "}", "|">>, "M3", Some(N_m))>>, << >>))
    @@ ("M3" :> BuildMapper(<<AddCall(<<"/", "h", "3">>, "A", Some(N_n)),
                              AddCall(<<"/", "d", "3">>, "B", Some(N_a_b))>>, << >>))

Mounts == {<< >>, <<"/", "a", "p", "p">>}
RequestPaths == {<<"/", "h", "1">>, <<"/", "u", "s", "e", "r", "s", "/", "7">>, <<"/", "y", "/", "7">>, <<"/", "x", "/", "h", "2">>, <<"/", "x", "/", "d", "2">>, <<"/", "x", "/", "y", "/", "h", "3">>, <<"/", "x", "/", "y", "/", "d", "3">>}

RECURSIVE Routed(_, _, _)
\* Mapper.dispatch of mapper m and the dispatch of the mappers below it, for a
\* request that reaches a target: the frames added and the environ left
Routed(ms, m, env) ==
    LET frame == [root |-> env.SCRIPT_NAME, mapper |-> m, route |-> None]
        hits == {i \in 1..Len(ms[m].routes) : re_match(ms[m].routes[i].regex, env.PATH_INFO).ok}
    IN  IF hits = {} THEN [context |-> <<frame>>, environ |-> env]
        ELSE LET i == CHOOSE h \in hits : \A g \in hits : h <= g
                 route == ms[m].routes[i]
                 env2 == route_environ(route, env, re_match(route.regex, env.PATH_INFO))
                 below == Routed(ms, route.resource, env2)
             IN  IF TargetKind(route.resource) = "mapper"
                 THEN [below EXCEPT !.context = <<[frame EXCEPT !.route = Some(i)]>> \o @]
                 ELSE [context |-> <<[frame EXCEPT !.route = Some(i)]>>, environ |-> env2]

UrlTargets ==
    {StrTarget(t) : t \in {<<".">>, <<"/">>, <<"/", "n">>, <<"/", "a", ".", "b">>, <<"n">>, <<".", "n">>, <<".", ".", "n">>, <<".", ".", ".", "n">>, <<"a", ".", "b">>, <<".", ".", "a", ".", "b">>,
                           <<"u", "s", "e", "r">>, <<"p", "a", "i", "r">>, <<"m", ":", "n">>, <<".", "m", ":", "n">>, <<"/", "m", ":", "n">>, <<"m", ":", "m", ":", "n">>}}
    \cup {ObjTarget("A"), ObjTarget("F"), ObjTarget("Z"), RouteTarget("M2", 1)}

ArgValues == {IntVal(7), StrVal(<<"y">>)}
KwValues(name) == IF name = N_id THEN ArgValues
                  ELSE IF name = N_p THEN {StrVal(<<"y">>)} ELSE {BoolVal(TRUE)}
KwArgs ==
    {kw \in UNION {[D -> ArgValues \cup {BoolVal(TRUE)}] : D \in SUBSET {N_id, N_p, N_edit}} :
        \A name \in DOMAIN kw : kw[name] \in KwValues(name)}

InitUrl ==
    /\ mappers = UrlMappers
    /\ resources = ("A" :> ResourceInit(<<H("get", "GET", None)>>))
                     @@ ("B" :> ResourceInit(<<H("get_b", "GET", None)>>))
    /\ \E mount \in Mounts, path \in RequestPaths :
          LET r == Routed(mappers, "M1",
                          [NoEnviron EXCEPT !.REQUEST_METHOD = "GET", !.SCRIPT_NAME = mount,
                                            !.PATH_INFO = path])
          IN  environ = r.environ /\ context = r.context
    /\ ctx = NewContext
    /\ pc = PC("url", "", 0)
    /\ stack = << >>
    /\ ret = NoRet
    /\ handler = [meta |-> NoHandler, vary |-> {}]
    /\ response = Response(0, << >>, "")
    /\ wsgi = NoWsgi
    /\ events = << >>
    /\ tpl = Idle
    /\ cond = Idle

\* what a call leaves in the history: its arguments and its result r
UrlEvent(e, target, args, kw, r) ==
    [e |-> e, target |-> target, args |-> args, kw |-> kw, err |-> r.err, path |-> r.path]

\* Request.url_for(target, *args, **kw) without _query, up to the URL path
BuildUrl ==
    /\ pc.op = "url"
    /\ \E target \in UrlTargets, args \in SeqsUpTo(ArgValues, MaxArgs), kw \in KwArgs :
          Log(UrlEvent("build_url", target, args, kw,
                       build_url(mappers, context, target, args, kw)))
    /\ pc' = PC("done", "", 0)
    /\ UNCHANGED <<mappers, resources, environ, context, ctx, stack, ret, handler, response,
                   wsgi, tpl, cond>>

\* route.path(args, kw) for a route of the current mapper
RoutePath ==
    /\ pc.op = "url"
    /\ LET m == context[Len(context)].mapper
       IN  \E i \in 1..Len(mappers[m].routes), args \in SeqsUpTo(ArgValues, MaxArgs),
              kw \in KwArgs :
              Log(UrlEvent("route_path", RouteTarget(m, i), args, kw,
                           Route_path(mappers[m].routes[i], mappers[m].ranges, args, kw)))
    /\ pc' = PC("done", "", 0)
    /\ UNCHANGED <<mappers, resources, environ, context, ctx, stack, ret, handler, response,
                   wsgi, tpl, cond>>

NextUrl == BuildUrl \/ RoutePath

SpecUrl == InitUrl /\ [][NextUrl]_vars

(***************************************************************************)
(* Properties of URL building.                                              *)
(***************************************************************************)
Called(kind) == Len(events) = 1 /\ events[1].e = kind
LastFrame == context[Len(context)]

\* the parameters of the route that route.path was called on, the positions
\* of those that kw does not name, and the value each parameter should get
PathRoute == mappers[events[1].target.m].routes[events[1].target.i]
Unkeyed == {i \in 1..Len(PathRoute.template_params) :
               PathRoute.template_params[i] \notin DOMAIN events[1].kw}
Rank(i) == Cardinality({j \in Unkeyed : j <= i})
Assigned ==
    LET names == PathRoute.template_params
        given == {i \in 1..Len(names) : i \notin Unkeyed \/ Rank(i) <= Len(events[1].args)}
    IN  [name \in {names[i] : i \in given} |->
            LET i == CHOOSE j \in given : names[j] = name
            IN  IF i \in Unkeyed THEN events[1].args[Rank(i)] ELSE events[1].kw[name]]
LeftOver ==
    \/ Len(events[1].args) > Cardinality(Unkeyed)
    \/ DOMAIN events[1].kw \ SeqToSet(PathRoute.template_params) # {}

\* C16: Route.path gives each parameter its keyed value if there is one and
\* otherwise the next positional value, in declared order; a positional or
\* keyed value that is left over is an argument error and no path is returned.
C16_KeyedThenPositional ==
    Called("route_path") =>
        IF LeftOver
        THEN events[1].err = "InvalidArgumentError" /\ events[1].path = << >>
        ELSE LET r == template2path(PathRoute.template, Assigned, DEFAULT_RANGES)
             IN  events[1].err = r.err /\ events[1].path = r.path

C16_Witness ==
    /\ Called("route_path")
    /\ PathRoute.template = T_pair
    /\ DOMAIN events[1].kw = {N_id}
    /\ Len(events[1].args) = 1
    /\ events[1].path = <<"/", "y", "/", "7">>

\* a call build_url('user', **kw) in the mapper that has the route 'user'
UserUrl(kw) ==
    /\ Called("build_url")
    /\ LastFrame.mapper = "M1"
    /\ events[1].target = StrTarget(N_user)
    /\ events[1].args = << >>
    /\ events[1].kw = kw

RootUrl == Called("build_url") /\ events[1].target = StrTarget(<<"/">>)

\* C18: build_url('/') is the root recorded in the first frame of the routing
\* context, the frame of the outermost mapper, or '/' if that root is empty,
\* at every depth of nested mappers and whatever args and kw are.
C18_RootOfFirstFrame ==
    RootUrl =>
        /\ events[1].err = "ok"
        /\ events[1].path = IF context[1].root = << >> THEN <<"/">> ELSE context[1].root

C18_Witness ==
    /\ RootUrl
    /\ Len(context) = 3
    /\ context[1].root # << >>
    /\ events[1].path = context[1].root

\* C18 as stated: the root of the frame on top of the stack
C18_RootOfTopFrame ==
    RootUrl =>
        /\ events[1].err = "ok"
        /\ events[1].path = IF LastFrame.root = << >> THEN <<"/">> ELSE LastFrame.root

\* the frame and the name that a string target should be resolved with
Dots == LeadingDots(events[1].target.s)
ResolvedName ==
    LET t == events[1].target.s
    IN  IF t[1] = "/" THEN Tail(t) ELSE SubSeq(t, Dots + 1, Len(t))
ResolvedFrame ==
    LET t == events[1].target.s
    IN  IF t[1] = "/" THEN context[1]
        ELSE IF Dots >= 1 THEN context[Len(context) + 1 - Dots]
        ELSE LastFrame

\* C19: a name with n >= 1 leading dots is resolved against the mapper n-1
\* frames above the top of the stack, '/name' against the mapper at the bottom,
\* every other string (a name with a '.' after its first character included)
\* and every object against the current mapper; the result is prefixed with
\* the root of that frame.
C19_FrameSelection ==
    (Called("build_url") /\ events[1].target \notin {StrTarget(<<"/">>), StrTarget(<<".">>)}) =>
        LET ev == events[1]
            r == IF ev.target.k # "str"
                 THEN RootPlusPath(mappers, LastFrame, ev.target, ev.args, ev.kw)
                 ELSE RootPlusPath(mappers, ResolvedFrame, StrTarget(ResolvedName),
                                   ev.args, ev.kw)
        IN  (ev.target.k = "str" => Dots <= Len(context)) =>
                ev.err = r.err /\ ev.path = r.path

\* the mapper of the current frame, and a name without '.', '/' or ':'
CurrentMapper == mappers[LastFrame.mapper]
PlainName(t) ==
    t.k = "str" /\ t.s # << >> /\ \A i \in 1..Len(t.s) : t.s[i] \notin {".", "/", ":"}

\* the target is not known to the current mapper: a name that is not the name
\* of one of its routes, a route of another mapper, or an object that none of
\* its routes leads to
UnknownTarget(t) ==
    \/ PlainName(t) /\ t.s \notin DOMAIN CurrentMapper.named_routes
    \/ t.k = "route" /\ t.m # LastFrame.mapper
    \/ t.k = "obj" /\ t.id \notin DOMAIN CurrentMapper.lookup

\* C23: build_url with a route name, a route or an object that the resolved
\* mapper does not know raises InvalidArgumentError and returns no path.
C23_UnknownTargetIsArgumentError ==
    (Called("build_url") /\ UnknownTarget(events[1].target)) =>
        events[1].err = "InvalidArgumentError" /\ events[1].path = << >>

(***************************************************************************)
(* Optional groups in template2path.  The groups of a template are found    *)
(* from its tokens: a group is named by the position of its '['.            *)
(***************************************************************************)
Toks == template_splitter(tpl.template)
Opens == {i \in 1..Len(Toks) : Toks[i] = <<"[">>}
ParamAt == {k \in 2..Len(Toks) : Toks[k - 1] = <<"{">>}
ParamName(k) == IF Find(Toks[k], ":") > -1 THEN SplitColon(Toks[k])[1] ELSE Toks[k]

RECURSIVE CloseFrom(_, _)
\* the position of the ']' that closes the group, scanning from j at depth d
CloseFrom(j, d) ==
    IF Toks[j] = <<"]">> THEN (IF d = 1 THEN j ELSE CloseFrom(j + 1, d - 1))
    ELSE IF Toks[j] = <<"[">> THEN CloseFrom(j + 1, d + 1)
    ELSE CloseFrom(j + 1, d)
Close(i) == CloseFrom(i + 1, 1)

\* the groups around position k, and the positions directly inside group i
Enclosing(k) == {i \in Opens : i < k /\ k < Close(i)}
DirectlyIn(i, K) ==
    {k \in K : i \in Enclosing(k) /\ \A j \in Enclosing(k) : j <= i}
Supplied(k) == ParamName(k) \in DOMAIN tpl.params

RECURSIVE Kept(_)
\* group i is kept: every parameter directly inside it is supplied, and it has
\* a parameter directly inside it or a kept group directly inside it
Kept(i) ==
    /\ \A k \in DirectlyIn(i, ParamAt) : Supplied(k)
    /\ \/ DirectlyIn(i, ParamAt) # {}
       \/ \E c \in DirectlyIn(i, Opens) : Kept(c)

\* group i is kept, if groups without any parameter are always kept
KeptOrLiteral(i) ==
    IF \A k \in ParamAt : i \notin Enclosing(k) THEN TRUE ELSE Kept(i)

\* what token k contributes to the path
TokenText(k) ==
    IF k \in ParamAt THEN quote(unicode(tpl.params[ParamName(k)]))
    ELSE IF Len(Toks[k]) = 1 /\ Toks[k][1] \in Specials THEN << >>
    ELSE Toks[k]

RECURSIVE PathOfKept(_, _)
\* the texts of the tokens from k on, of which all groups around are in keep
PathOfKept(k, keep) ==
    IF k > Len(Toks) THEN << >>
    ELSE (IF Enclosing(k) \subseteq keep THEN TokenText(k) ELSE << >>)
             \o PathOfKept(k + 1, keep)

Built == tpl.stage \in {"built", "matched"}

MaxGrammarLen == 4

GrammarTokens ==
    {<<"a">>, <<"[">>, <<"]">>, <<"{">>, <<"}">>, <<"|">>,
     <<":", "d", "i", "g", "i", "t", "s">>, <<":", "z">>}

GrammarTemplates == {Flatten(ts) : ts \in SeqsUpTo(GrammarTokens, MaxGrammarLen)}

InitGrammar ==
    /\ PipelineOff
    /\ cond = Idle
    /\ \E template \in GrammarTemplates, a \in {None, Some(StrVal(<<"7">>)), Some(StrVal(<<"x">>))} :
          tpl = TplInput(template, Params(a, None), << >>)

\* Mapper().add(template, resource)
AddTemplate ==
    /\ tpl.stage = "template"
    /\ LET r == MapperAdd(NewMapper, tpl.template, "A", None)
       IN  tpl' = [tpl EXCEPT !.route = [err |-> r.err,
                                         route |-> IF r.err = "ok" THEN r.mapper.routes[1]
                                                   ELSE << >>],
                              !.stage = IF r.err = "ok" THEN "route" ELSE "rejected"]
    /\ UNCHANGED <<pipeline, cond>>

NextGrammar == AddTemplate \/ BuildPath

SpecGrammar == InitGrammar /\ [][NextGrammar]_vars

\* the brackets and braces of t from position i on are matched, at bracket depth
\* `depth` and inside braces or not: every ']' closes a '[', every '}' closes a
\* '{', no '{' or '[' stands between a '{' and its '}', and nothing is left open
RECURSIVE Matched(_, _, _, _)
Matched(t, i, depth, inside) ==
    IF i > Len(t) THEN depth = 0 /\ ~inside
    ELSE IF inside
         THEN IF t[i] \in {"{", "["} THEN FALSE
              ELSE Matched(t, i + 1, depth, t[i] # "}")
         ELSE IF t[i] = "[" THEN Matched(t, i + 1, depth + 1, FALSE)
         ELSE IF t[i] = "]" THEN depth > 0 /\ Matched(t, i + 1, depth - 1, FALSE)
         ELSE IF t[i] = "{" THEN Matched(t, i + 1, depth, TRUE)
         ELSE IF t[i] = "}" THEN FALSE
         ELSE Matched(t, i + 1, depth, FALSE)

Mismatched(t) == ~Matched(t, 1, 0, FALSE)

\* a '|' that is not the last character
BarMisplaced(t) == \E i \in 1..(Len(t) - 1) : t[i] = "|"

AddDone == tpl.stage # "template"

\* C21: a template with mismatched brackets or braces, or with a '|' that is
\* not its last character, is rejected with a template error when it is added,
\* and building a path for a route that was made never raises a template error.
C21_GrammarRejectedAtAdd ==
    /\ (AddDone /\ (Mismatched(tpl.template) \/ BarMisplaced(tpl.template)))
          => tpl.route.err = "InvalidTemplateError"
    /\ tpl.stage = "not built" => tpl.built.err # "InvalidTemplateError"

\* t has the parameter {a:z}, whose range name z is in no range table
UnknownRange(t) ==
    \E i \in 1..(Len(t) - 4) : SubSeq(t, i, i + 4) = <<"{", "a", ":", "z", "}">>

\* C22: a template with a parameter whose range name is not in the mapper's
\* range table is rejected with a template error when it is added.
C22_UnknownRangeRejected ==
    (AddDone /\ UnknownRange(tpl.template)) => tpl.route.err = "InvalidTemplateError"

(***************************************************************************)
(* The body of a response in Mapper.wsgi, from the moment the application   *)
(* has returned a response: conditional_to, the finalize callbacks,         *)
(* Response.__call__ and the close of the response iterator.  A finalize    *)
(* callback gets the response and may read response.body, and so may a      *)
(* callback that runs at close.  The handler may have added a callback to   *)
(* its response with Response.add_callback.  The handlers have no           *)
(* `produces`, so the responses have no body writer.                        *)
(***************************************************************************)
BodyKinds == {"", "str", "thunk", "thunk_none"}

\* Response.add_callback(fn)
Response_add_callback(self, fn) == [self EXCEPT !.callbacks = Append(@, fn)]

BodyResponses ==
    LET made == {Response(status, Header("ETag", etag), body) :
                    status \in {200, 404}, etag \in {None, Some(<<"\"x\"">>), Some(<<"x">>)},
                    body \in BodyKinds}
    IN  made \cup {Response_add_callback(r, "fn") : r \in made}

InitBody ==
    /\ PipelineOff
    /\ tpl = Idle
    /\ \E self \in BodyResponses, inm \in {None, Some(<<"\"x\"">>), Some(<<"\"y\"">>)},
          method \in {"GET", "HEAD"} :
          cond = [stage |-> "returned", self |-> self, if_none_match |-> inm,
                  method |-> method, response |-> self, is_self |-> TRUE, _body |-> None,
                  reads |-> << >>, sent |-> NoWsgi, closed |-> << >>]

\* one read of response.body at the given stage: the cached value and the record
\* of the read
ReadBody(at) ==
    LET b == Response_body(cond.response.body, cond._body)
    IN  [_body |-> b._body,
         reads |-> Append(cond.reads, [at |-> at, value |-> b.value, invoked |-> b.invoked])]

\* Mapper.wsgi: response = response.conditional_to(request), and the except
\* clause for an exception raised there.  A response that conditional_to
\* builds is a new object, with nothing cached
BodyConditional ==
    /\ cond.stage = "returned"
    /\ LET c == conditional_to(cond.self, cond.if_none_match, None)
           r == IF c.err # "ok" THEN InternalServerError ELSE c.resp
       IN  cond' = [cond EXCEPT !.stage = "conditional", !.response = r,
                                !.is_self = (c.err = "ok" /\ c.resp = cond.self)]
    /\ UNCHANGED <<pipeline, tpl>>

\* Mapper.wsgi: response.add_callback(lambda: ctx._run_callbacks('close')) and
\* ctx._run_callbacks('finalize', request, response), with one finalize
\* callback that reads response.body or does not
BodyFinalize ==
    /\ cond.stage = "conditional"
    /\ \E reads \in BOOLEAN :
          LET r == Response_add_callback(cond.response, "close")
          IN  cond' = IF reads
                      THEN [cond EXCEPT !.stage = "finalized", !.response = r,
                                        !._body = ReadBody("finalize")._body,
                                        !.reads = ReadBody("finalize").reads]
                      ELSE [cond EXCEPT !.stage = "finalized", !.response = r]
    /\ UNCHANGED <<pipeline, tpl>>

\* Mapper.wsgi: response(environ, start_response); Response.__call__ reads
\* self.body first
BodyCall ==
    /\ cond.stage = "finalized"
    /\ LET out == ResponseCall(cond.response, cond.method)
       IN  cond' = [cond EXCEPT !.stage = IF out.err = "ok" THEN "sent" ELSE "raised",
                                !._body = ReadBody("call")._body,
                                !.reads = ReadBody("call").reads,
                                !.sent = IF out.err # "ok" THEN @
                                         ELSE [started |-> 1, status |-> out.status,
                                               headers |-> out.headers, body |-> out.body,
                                               callbacks |-> out.callbacks]]
    /\ UNCHANGED <<pipeline, tpl>>

\* the server closes the response iterator: ResponseBody.close calls the
\* callbacks it was made with; the context's close callback reads response.body
BodyClose ==
    /\ cond.stage = "sent"
    /\ cond' = [cond EXCEPT !.stage = "closed", !.closed = cond.sent.callbacks,
                            !._body = ReadBody("close")._body,
                            !.reads = ReadBody("close").reads]
    /\ UNCHANGED <<pipeline, tpl>>

NextBody == BodyConditional \/ BodyFinalize \/ BodyCall \/ BodyClose

SpecBody == InitBody /\ [][NextBody]_vars

IsThunk == cond.self.body \in {"thunk", "thunk_none"}
ReducedTo304 == cond.stage # "returned" /\ cond.response.status = 304
ThunkCalls == Cardinality({i \in 1..Len(cond.reads) : cond.reads[i].invoked})

C25_ResponseCallbacksRun ==
    cond.stage = "closed" =>
        \A i \in 1..Len(cond.self.callbacks) : cond.self.callbacks[i] \in SeqToSet(cond.closed)

(***************************************************************************)
(* Concurrent requests.  A WSGI server calls Mapper.wsgi from several       *)
(* threads; the mappers, their routes and their config dictionaries are the *)
(* objects the threads share.  Each request has its own Context;            *)
(* Mapper.__call__ assigns the mapper's config dictionary itself (not a     *)
(* copy) to ctx.config, so ctx.config is modelled as a reference: "own" for *)
(* the dictionary Context.__init__ made, or the id of a mapper.  A handler  *)
(* reads ctx.config['debug'], assigns it, or builds the URL of a route,     *)
(* which reads the property Route.params.  The value of config['debug'] is  *)
(* 0 as the application set it before serving and r as request r set it;    *)
(* a read of a dictionary without the key gives -1.                         *)
(***************************************************************************)
MaxRequests == 2
MaxHandlerSteps == 2

Requests == 1..MaxRequests

K_debug == <<"d", "e", "b", "u", "g">>

\* the application: app.config['debug'] = 0 was set before serving
SharedMappers ==
    LET root == BuildMapper(<<AddCall(<<"/", "h", "1">>, "A", Some(N_n)),
                              AddCall(<<"/", "x", "|">>, "M2", Some(N_m))>>, << >>)
        inner == BuildMapper(<<AddCall(<<"/", "h", "2">>, "A", Some(N_n))>>, << >>)
    IN  ("M1" :> [root EXCEPT !.config = (K_debug :> 0)]) @@ ("M2" :> inner)

\* the property Route.params of route i of mapper mp, for a resource without
\* build_url: the first read stores _template_params in _params.  The route
\* object is the one the name map and the target index refer to
Route_params(mp, i) ==
    LET route == mp.routes[i]
        read == [route EXCEPT !._params = IF @ = None THEN Some(route.template_params) ELSE @]
        same(x) == IF x = route THEN read ELSE x
    IN  [value |-> read._params[1],
         mapper |-> [mp EXCEPT !.routes[i] = read,
                               !.named_routes = [n \in DOMAIN @ |-> same(@[n])],
                               !.lookup = [t \in DOMAIN @ |-> same(@[t])]]]

InitShared ==
    /\ mappers = SharedMappers
    /\ resources = ("A" :> ResourceInit(<<H("get", "GET", None)>>))
    /\ environ = NoEnviron
    /\ context = << >>
    /\ ctx = [r \in Requests |-> [config |-> "own", own |-> NoGroups, seen |-> {}]]
    /\ pc = [r \in Requests |-> PC("idle", "", 0)]
    /\ stack = << >>
    /\ ret = NoRet
    /\ handler = [meta |-> NoHandler, vary |-> {}]
    /\ response = Response(0, << >>, "")
    /\ wsgi = NoWsgi
    /\ events = << >>
    /\ tpl = Idle
    /\ cond = Idle

SharedRest == <<resources, environ, context, stack, ret, handler, response, wsgi, events,
                tpl, cond>>

\* Mapper.wsgi of the root mapper in the thread of request r, up to
\* self(request, ctx): Context(request) has a config dictionary of its own.
\* The request is for /h1 (one mapper on its way) or /x/h2 (two)
SharedBegin ==
    \E r \in Requests, depth \in {1, 2} :
        /\ pc[r].op = "idle"
        /\ pc' = [pc EXCEPT ![r] = PC("mapper", "M1", depth)]
        /\ ctx' = [ctx EXCEPT ![r] = [config |-> "own", own |-> NoGroups, seen |-> {}]]
        /\ UNCHANGED <<mappers, SharedRest>>

\* Mapper.__call__ of mapper pc[r].m: ctx.config = self.config, then dispatch
\* to the nested mapper or to the resource
SharedMapperCall ==
    \E r \in Requests :
        /\ pc[r].op = "mapper"
        /\ ctx' = [ctx EXCEPT ![r].config = pc[r].m]
        /\ pc' = [pc EXCEPT ![r] = IF pc[r].i > 1 THEN PC("mapper", "M2", pc[r].i - 1)
                                   ELSE PC("handler", pc[r].m, MaxHandlerSteps)]
        /\ UNCHANGED <<mappers, SharedRest>>

\* the dictionary ctx.config of request r refers to
ConfigOf(r) == IF ctx[r].config = "own" THEN ctx[r].own ELSE mappers[ctx[r].config].config

\* the handler of request r reads ctx.config.get('debug')
SharedRead ==
    \E r \in Requests :
        /\ pc[r].op = "handler" /\ pc[r].i > 0
        /\ ctx' = [ctx EXCEPT ![r].seen = @ \cup {IF K_debug \in DOMAIN ConfigOf(r)
                                                  THEN ConfigOf(r)[K_debug] ELSE -1}]
        /\ pc' = [pc EXCEPT ![r].i = @ - 1]
        /\ UNCHANGED <<mappers, SharedRest>>

\* the handler of request r executes ctx.config['debug'] = r
SharedWrite ==
    \E r \in Requests :
        /\ pc[r].op = "handler" /\ pc[r].i > 0
        /\ mappers' = [mappers EXCEPT ![ctx[r].config].config = (K_debug :> r) @@ @]
        /\ pc' = [pc EXCEPT ![r].i = @ - 1]
        /\ UNCHANGED <<ctx, SharedRest>>

\* the handler of request r calls request.url_for('n'): Mapper.path, Route.path
\* and Route._pop_params, which reads route.params
SharedUrlFor ==
    \E r \in Requests :
        /\ pc[r].op = "handler" /\ pc[r].i > 0
        /\ mappers' = [mappers EXCEPT ![pc[r].m] = Route_params(@, 1).mapper]
        /\ pc' = [pc EXCEPT ![r].i = @ - 1]
        /\ UNCHANGED <<ctx, SharedRest>>

\* the handler returns and the request is answered
SharedFinish ==
    \E r \in Requests :
        /\ pc[r].op = "handler"
        /\ pc' = [pc EXCEPT ![r] = PC("done", "", 0)]
        /\ UNCHANGED <<mappers, ctx, SharedRest>>

NextShared ==
    \/ SharedBegin
    \/ SharedMapperCall
    \/ SharedRead
    \/ SharedWrite
    \/ SharedUrlFor
    \/ SharedFinish

SpecShared == InitShared /\ [][NextShared]_vars

\* a mapper without what its routes have cached in _params
WithoutCaches(mp) ==
    LET plain(route) == [route EXCEPT !._params = None]
    IN  [mp EXCEPT !.routes = [i \in DOMAIN @ |-> plain(@[i])],
                   !.named_routes = [n \in DOMAIN @ |-> plain(@[n])],
                   !.lookup = [t \in DOMAIN @ |-> plain(@[t])]]

\* what request r may read if no other request is observable: the value set
\* before serving (none in the nested mapper) and the value r wrote
OwnValues(r) == {0, -1, r}

\* C26: while requests are handled, in any interleaving, the route list, the
\* named routes, the target index and the config of every mapper stay as they
\* were before serving (the routes compared without their cache of parameter
\* names), and no request reads from ctx.config a value that another request
\* wrote.
C26_SharedStateReadOnly ==
    /\ \A m \in DOMAIN mappers : WithoutCaches(mappers[m]) = SharedMappers[m]
    /\ \A r \in Requests : ctx[r].seen \subseteq OwnValues(r)

(***************************************************************************)
(* Building a mapper: a sequence of Mapper.add calls on a new mapper, some  *)
(* of which raise.  The last call and the mapper it was made on are kept.   *)
(***************************************************************************)
MaxAdds == 3

AddTemplates == {<<"/", "a">>, <<"/", "{", "a">>}
AddTargets == {"A", "B"}
AddNames == {None, Some(N_n), Some(<<"a", ":", "b">>)}

InitAdd ==
    /\ mappers = ("M1" :> NewMapper)
    /\ resources = NoGroups
    /\ environ = NoEnviron
    /\ context = << >>
    /\ ctx = NewContext
    /\ pc = PC("add", "M1", 0)
    /\ stack = << >>
    /\ ret = NoRet
    /\ handler = [meta |-> NoHandler, vary |-> {}]
    /\ response = Response(0, << >>, "")
    /\ wsgi = NoWsgi
    /\ events = << >>
    /\ tpl = Idle
    /\ cond = Idle

\* mapper.add(template, resource, name), which returns or raises
AddRoute ==
    /\ pc.op = "add" /\ pc.i < MaxAdds
    /\ \E template \in AddTemplates, resource \in AddTargets, name \in AddNames :
          LET r == MapperAdd(mappers["M1"], template, resource, name)
          IN  /\ mappers' = [mappers EXCEPT !["M1"] = r.mapper]
              /\ events' = <<[e |-> "add", template |-> template, resource |-> resource,
                              name |-> name, err |-> r.err, before |-> mappers["M1"]]>>
    /\ pc' = [pc EXCEPT !.i = @ + 1]
    /\ UNCHANGED <<resources, environ, context, ctx, stack, ret, handler, response, wsgi,
                   tpl, cond>>

NextAdd == AddRoute

SpecAdd == InitAdd /\ [][NextAdd]_vars

Added == mappers["M1"]
RouteSet(mp) == SeqToSet(mp.routes)

\* the first route of the route list that is bound to target t
FirstBound(mp, t) ==
    mp.routes[CHOOSE i \in 1..Len(mp.routes) :
                 /\ mp.routes[i].resource = t
                 /\ \A j \in 1..(i - 1) : mp.routes[j].resource # t]

\* C27: after any sequence of add calls route names are unique, the routes of
\* the name map and of the target index are routes of the route list, the
\* index maps each target to the first route of the list bound to it, and an
\* add that raised left the route list, the name map and the index unchanged.
C27_AddKeepsIndexesConsistent ==
    /\ \A i, j \in 1..Len(Added.routes) :
          (i < j /\ Added.routes[i].name # None) => Added.routes[i].name # Added.routes[j].name
    /\ \A n \in DOMAIN Added.named_routes : Added.named_routes[n] \in RouteSet(Added)
    /\ \A t \in DOMAIN Added.lookup : Added.lookup[t] \in RouteSet(Added)
    /\ DOMAIN Added.lookup = {Added.routes[i].resource : i \in 1..Len(Added.routes)}
    /\ \A t \in DOMAIN Added.lookup :
          Added.lookup[t] \in RouteSet(Added) => Added.lookup[t] = FirstBound(Added, t)
    /\ (events # << >> /\ events[1].err # "ok") => Added = events[1].before

(***************************************************************************)
(* SCRIPT_NAME and PATH_INFO while one request is routed through nested     *)
(* mappers (specification Spec).                                            *)
(***************************************************************************)
WholePath == environ.SCRIPT_NAME \o environ.PATH_INFO

\* the dispatch events so far: one for every mapper entered, in order
Entered == SelectSeq(events, LAMBDA ev : ev.e = "dispatch")

HasPrefix(s, p) == Len(p) <= Len(s) /\ SubSeq(s, 1, Len(p)) = p

\* C28: while one request is handled, through nested mappers and prefix and
\* anchored routes, SCRIPT_NAME + PATH_INFO stays what it was when the request
\* entered (the PATH_INFO of the first dispatch, SCRIPT_NAME being empty then),
\* and the root of every frame of the routing context is a prefix of it and is
\* the SCRIPT_NAME its mapper was entered with (what was left then was the
\* PATH_INFO of that mapper's dispatch).
C28_PathConserved ==
    /\ Len(context) = Len(Entered)
    /\ Entered # << >> => WholePath = Entered[1].path_info
    /\ \A j \in DOMAIN events :
          events[j].e = "target" =>
              events[j].script_name \o events[j].path_info
                  = events[j].was_script_name \o events[j].was_path_info
    /\ \A k \in DOMAIN context :
          /\ HasPrefix(WholePath, context[k].root)
          /\ context[k].root \o Entered[k].path_info = WholePath

C28_Witness ==
    /\ Len(context) = 2
    /\ context[1].root = << >>
    /\ context[2].root = <<"/", "m">>
    /\ environ.SCRIPT_NAME = <<"/", "m">>
    /\ environ.PATH_INFO = <<"/", "b">>
    /\ pc.op = "closed"

(***************************************************************************)
(* Accept negotiation among candidates of which some declare no provides    *)
(* (specification SpecNegotiate).                                           *)
(***************************************************************************)
SomeUnannotated ==
    /\ Candidates # << >>
    /\ ContentTypeSent => ~(BestContentScore = MIMEPARSE_NO_MATCH \/ BestContentScore[2] = 0)
    /\ \E i \in 1..Len(Remaining) : Remaining[i].provides = None

\* the earliest-added of the remaining candidates that declare no provides
FirstUnannotated ==
    Remaining[CHOOSE i \in 1..Len(Remaining) :
                 /\ Remaining[i].provides = None
                 /\ \A j \in 1..(i - 1) : Remaining[j].provides # None]

\* C29: with an Accept header and a candidate that declares no provides,
\* NotAcceptable is never raised, the candidates that declare provides are
\* discarded, and the handler selected and invoked is the earliest-added
\* candidate without provides, whatever the Accept header says.
C29_UnannotatedWins ==
    (Resolved /\ AcceptSent /\ SomeUnannotated) =>
        /\ events[1].err = "ok"
        /\ events[1].handler.provides = None
        /\ events[1].handler = FirstUnannotated
        /\ \A k \in HandlerEvents : events[k].fn = FirstUnannotated.fn

(***************************************************************************)
(* The callbacks of the context in one request served by Mapper.wsgi        *)
(* (specification Spec).                                                    *)
(***************************************************************************)
PhaseRuns(phase) == {j \in DOMAIN events : Tag(events[j]) = phase}

\* C30: whatever the outcome of dispatch, enter callbacks run only after a
\* handler was resolved, leave callbacks only after the handler returned a
\* value that make_response accepts, finalize and teardown callbacks run
\* exactly once each in a request that is over, finalize for the response
\* that is sent and teardown after start_response.
C30_CallbackPhases ==
    /\ \A j \in PhaseRuns("enter") :
          j > 1 /\ events[j - 1].e = "resolve_handler" /\ events[j - 1].err = "ok"
    /\ \A j \in PhaseRuns("leave") :
          j > 1 /\ events[j - 1].e = "handler" /\ events[j - 1].rv \in {"resp", "value"}
    /\ Cardinality(PhaseRuns("finalize")) <= 1
    /\ Cardinality(PhaseRuns("teardown")) <= 1
    /\ Done =>
          /\ Cardinality(PhaseRuns("finalize")) = 1
          /\ Cardinality(PhaseRuns("teardown")) = 1
          /\ wsgi.started = 1
          /\ wsgi.status = response.status
          /\ \A j \in PhaseRuns("teardown") :
                \E k \in PhaseRuns("start_response") :
                    k < j /\ \A f \in PhaseRuns("finalize") : f < k

====
